---- MODULE Spec2Model ----
(***************************************************************************)
(* Model of the tenantsdb-bench execution and analysis engine:             *)
(*   - bench.ComputeStats / pct            (src/bench/stats.go)            *)
(*   - pg.PickRunner, pg.RunQueries, pg.RunQueriesTimed                    *)
(*                                          (src/unnamed/part_008)         *)
(* Durations are whole time units (time.Duration is an int64 count).       *)
(* A float64 quotient a/b is kept as the pair [num |-> a, den |-> b]:      *)
(* den = 0 with num > 0 is +Inf, num = 0 with den = 0 is NaN, and the      *)
(* float64 zero value is [num |-> 0, den |-> 1].                           *)
(***************************************************************************)
EXTENDS Integers, Sequences, FiniteSets, Bags, TLC

VARIABLES
    params,         \* bench.BenchParams of the run
    pcMain,         \* position of the goroutine that called the runner
    pc,             \* pc[w]: position of worker w
    i,              \* i[w]: loop index of worker w (count mode)
    results,        \* the results slice handed to ComputeStats
    local,          \* local[w]: worker w's private buffer (timed mode)
    tmp,            \* tmp[w]: the value of results worker w read in its append
    stopped,        \* the atomic.Bool stop flag (timed mode)
    timerFired,     \* the time.AfterFunc timer has run its function
    mu,             \* the result mutex: the set of its holders
    totalDuration,  \* time.Since(start), 0 until it is taken
    stats,          \* the BenchStats the runner returns
    calls,          \* history: calls[w] = backend calls worker w has made
    failed,         \* history: failed[w] = backend calls of w that returned an error
    loads,          \* history: loads[w] = stopped.Load() calls of worker w
    flagSets,       \* history: number of false -> true changes of stopped
    merges,         \* history: merges[w] = appends of local[w] into results
    callsAtStop,    \* history: calls[w] at the moment the flag was set
    inFlightAtStop, \* history: workers inside a backend call at that moment
    now,            \* whole time units elapsed since the run or the controller began
    entry,          \* the entry point main dispatched to: database and test type
    measured,       \* history: the measurements the entry point has made
    runs,           \* RunMultiple: the runs argument
    passIdx,        \* RunMultiple: the loop variable i
    allRuns,        \* RunMultiple: the allRuns slice (the runs slice of a direct call)
    steady,         \* the bool SteadyState returned
    maxDev,         \* the float64 SteadyState returned
    ret,            \* the BenchStats RunMultiple or MedianStats returned
    started,        \* history: the run indices runFn was called with, in order
    cooldowns,      \* history: cooldown pauses completed
    passes,         \* history: the stats runFn returned, in pass order
    victim,         \* isolation: proxyCfg.Database, the tenant that is measured
    pools,          \* the open pools: the database each one connects to
    seeded,         \* the pools whose SeedData call returned without an error
    noisePc,        \* noisePc[w]: position of noise worker w
    stopNoise,      \* the stopNoise channel is closed
    noiseWrites,    \* history: the tenants a noise write was issued against
    verdict,        \* what PrintIsolation or the fairness analysis printed
    tResults,       \* scale: tResults[t], the samples and the stats of tenant t
    seedErr,        \* scale: the tenants whose SeedData call returned an error
    backend,        \* scale: how the backend answers the calls of each tenant
    plan,           \* fan-out: the (tenant, worker, offset, count) of every goroutine started
    warmup,         \* params.Warmup
    warmupIssued,   \* history: warm-up calls made
    warmupFailed,   \* history: warm-up calls that returned an error
    accounts,       \* the number of rows of the accounts table
    seed,           \* SeedData: its position, its rows argument and its locals
    seedLog,        \* history: the SeedData calls that returned
    written,        \* history: the result slots written, with the goroutine that wrote
    closes,         \* history: number of close(stopNoise) calls
    summary,        \* RunMultiple: the rows of the summary table, as printed
    launchedAt,     \* history: the time the last noise worker had been started
    isoStats        \* isolation: baselineStats, then noiseStats

\* the state of the multi-run controller and of the entry points
entryVars == <<entry, measured>>

ctlVars == <<runs, passIdx, allRuns, steady, maxDev, ret, started, cooldowns, passes>>

\* the state of the orchestrations: set-up, noise, fan-out, verdicts
\* the state of the scale test
scaleVars == <<tResults, seedErr, backend, plan>>

orchVars == <<victim, pools, seeded, noisePc, stopNoise, noiseWrites, verdict, scaleVars,
             launchedAt, isoStats>>

\* the warm-up of a run
warmVars == <<warmup, warmupIssued, warmupFailed>>

\* the dataset and the SeedData call at work on it
seedVars == <<accounts, seed, seedLog>>

\* state beside the run: warm-up, dataset, slot writes, stop signals, summary
sideVars == <<warmVars, seedVars, written, closes, summary>>

aux == <<now, entryVars, ctlVars, orchVars, sideVars>>

\* the state of a run executor, apart from the position of its caller
workVars == <<params, pc, i, results, local, tmp, stopped, timerFired, mu,
              totalDuration, stats, calls, failed, loads, flagSets, merges,
              callsAtStop, inFlightAtStop>>

vars == <<params, pcMain, pc, i, results, local, tmp, stopped, timerFired, mu,
          totalDuration, stats, calls, failed, loads, flagSets, merges,
          callsAtStop, inFlightAtStop, aux>>

(***************************************************************************)
(* Bounds of the model.                                                    *)
(***************************************************************************)
MaxSamples == 4         \* longest sample list given to ComputeStats directly
MaxLatency == 3         \* largest latency of a sample in such a list
MaxTotalDuration == 2   \* largest wall-clock duration of a run
MaxQueries == 4         \* largest params.Queries
MaxConcurrency == 2     \* largest params.Concurrency
MaxOps == 3             \* most operations the workers of a timed run issue
ClockWorkers == 4       \* largest params.Concurrency of a timed run with a clock
MaxRuns == 3            \* largest runs argument of RunMultiple, longest run set
MaxP50 == 2             \* largest p50 latency of a pass

(***************************************************************************)
(* bench.QueryResult and bench.BenchStats.                                 *)
(* At is 0 for the zero time.Time and 1 for a value of time.Now().         *)
(***************************************************************************)
QueryResult(at, d, err) == [At |-> at, Duration |-> d, Err |-> err]

ZeroResult == QueryResult(0, 0, FALSE)

FloatZero == [num |-> 0, den |-> 1]

FloatDiv(a, b) == [num |-> a, den |-> b]

IsZeroFloat(q) == q.num = 0 /\ q.den # 0

IsInfFloat(q) == q.num # 0 /\ q.den = 0

BenchStats(label, total, dur) ==
    [Label |-> label, Total |-> total, Errors |-> 0, Duration |-> dur,
     QPS |-> FloatZero,
     LatencyAvg |-> 0, LatencyMin |-> 0, LatencyMax |-> 0,
     LatencyP50 |-> 0, LatencyP75 |-> 0, LatencyP90 |-> 0,
     LatencyP95 |-> 0, LatencyP99 |-> 0]

(***************************************************************************)
(* bench.ComputeStats and its helpers.                                     *)
(***************************************************************************)
RECURSIVE SumSeq(_)
SumSeq(s) == IF s = <<>> THEN 0 ELSE Head(s) + SumSeq(Tail(s))

\* sort.Slice(durations, less): insertion of x into an ascending sequence
RECURSIVE InsertSorted(_, _)
InsertSorted(x, s) ==
    IF s = <<>> THEN <<x>>
    ELSE IF x <= Head(s) THEN <<x>> \o s
    ELSE <<Head(s)>> \o InsertSorted(x, Tail(s))

RECURSIVE SortSlice(_)
SortSlice(s) ==
    IF s = <<>> THEN <<>> ELSE InsertSorted(Head(s), SortSlice(Tail(s)))

\* a plausible slip: the sort.Slice call is missing
SortSlice_missing(s) == s

SortDurations(s) == SortSlice(s)

\* the loop of ComputeStats: stats.Errors++ for every r with r.Err != nil
\* a plausible slip: the range skips the first element
ErrorCount_skipFirst(rs) ==
    IF rs = <<>> THEN 0 ELSE Len(SelectSeq(Tail(rs), LAMBDA r : r.Err))

ErrorCount(rs) == Len(SelectSeq(rs, LAMBDA r : r.Err))

\* the loop of ComputeStats: durations = append(durations, r.Duration)
\* for every r with r.Err == nil, in input order
SuccessDurations(rs) ==
    LET ok == SelectSeq(rs, LAMBDA r : ~r.Err)
    IN  [k \in 1..Len(ok) |-> ok[k].Duration]

\* int(math.Ceil(p/100*float64(n))) for 0 <= p <= 100, n >= 0
CeilPct(p, n) == (p * n + 99) \div 100

\* a plausible slip: the rank is rounded down
pct_floor(sorted, p) ==
    IF Len(sorted) = 0 THEN 0
    ELSE LET raw == ((p * Len(sorted)) \div 100) - 1
             lo  == IF raw < 0 THEN 0 ELSE raw
             idx == IF lo >= Len(sorted) THEN Len(sorted) - 1 ELSE lo
         IN  sorted[idx + 1]

pct(sorted, p) ==
    IF Len(sorted) = 0 THEN 0
    ELSE LET raw == CeilPct(p, Len(sorted)) - 1
             lo  == IF raw < 0 THEN 0 ELSE raw
             idx == IF lo >= Len(sorted) THEN Len(sorted) - 1 ELSE lo
         IN  sorted[idx + 1]

\* a plausible slip: QPS is assigned before the early return on an empty
\* durations slice
ComputeStats_qpsFirst(label, rs, dur) ==
    LET base == [BenchStats(label, Len(rs), dur) EXCEPT !.Errors = ErrorCount(rs)]
        durations == SuccessDurations(rs)
        sorted == SortDurations(durations)
        n == Len(durations)
        early == [base EXCEPT !.QPS = FloatDiv(n, dur)]
    IN  IF n = 0 THEN early
        ELSE [early EXCEPT
                !.LatencyAvg = SumSeq(sorted) \div n,
                !.LatencyMin = sorted[1],
                !.LatencyMax = sorted[n],
                !.LatencyP50 = pct(sorted, 50),
                !.LatencyP75 = pct(sorted, 75),
                !.LatencyP90 = pct(sorted, 90),
                !.LatencyP95 = pct(sorted, 95),
                !.LatencyP99 = pct(sorted, 99)]

ComputeStats(label, rs, dur) ==
    LET base == [BenchStats(label, Len(rs), dur) EXCEPT !.Errors = ErrorCount(rs)]
        durations == SuccessDurations(rs)
        sorted == SortDurations(durations)
        n == Len(durations)
    IN  IF n = 0 THEN base
        ELSE [base EXCEPT
                !.LatencyAvg = SumSeq(sorted) \div n,
                !.LatencyMin = sorted[1],
                !.LatencyMax = sorted[n],
                !.LatencyP50 = pct(sorted, 50),
                !.LatencyP75 = pct(sorted, 75),
                !.LatencyP90 = pct(sorted, 90),
                !.LatencyP95 = pct(sorted, 95),
                !.LatencyP99 = pct(sorted, 99),
                !.QPS = FloatDiv(n, dur)]

(***************************************************************************)
(* The run executor: pg.PickRunner, pg.RunQueries, pg.RunQueriesTimed.     *)
(* Workers are numbered 0..Concurrency-1 as in the source; slot idx of the *)
(* results slice is results[idx + 1].                                      *)
(***************************************************************************)
\* mu is the set of goroutines holding the mutex: empty when it is free
NoHolder == {}

RunLabel == "run"

Workers == 0 .. (params.Concurrency - 1)

\* the outcomes of one backend call: the latency measured by time.Since(qStart)
\* and whether the call returned an error
BackendLatencies == {1}

IsTimed == params.Duration > 0

\* queriesPerWorker := params.Queries / params.Concurrency
queriesPerWorker == params.Queries \div params.Concurrency

\* offset := workerID * queriesPerWorker
offset(w) == w * queriesPerWorker

CountParams ==
    [Queries : 0 .. MaxQueries, Concurrency : 1 .. MaxConcurrency, Duration : {0}]

TimedParams ==
    [Queries : {0, MaxQueries}, Concurrency : 1 .. MaxConcurrency, Duration : {1}]

Idle(p) ==
    /\ params = p
    /\ pc = [w \in 0 .. (p.Concurrency - 1) |-> "idle"]
    /\ i = [w \in 0 .. (p.Concurrency - 1) |-> 0]
    /\ local = [w \in 0 .. (p.Concurrency - 1) |-> <<>>]
    /\ tmp = [w \in 0 .. (p.Concurrency - 1) |-> <<>>]
    /\ stopped = FALSE
    /\ timerFired = FALSE
    /\ mu = NoHolder
    /\ stats = BenchStats("", 0, 0)
    /\ calls = [w \in 0 .. (p.Concurrency - 1) |-> 0]
    /\ failed = [w \in 0 .. (p.Concurrency - 1) |-> 0]
    /\ loads = [w \in 0 .. (p.Concurrency - 1) |-> 0]
    /\ flagSets = 0
    /\ merges = [w \in 0 .. (p.Concurrency - 1) |-> 0]
    /\ callsAtStop = [w \in 0 .. (p.Concurrency - 1) |-> 0]
    /\ inFlightAtStop = {}

\* no entry point chosen yet, nothing measured
NoEntry == [db |-> "", test |-> ""]

EntryIdle ==
    /\ entry = NoEntry
    /\ measured = <<>>

\* the controller before RunMultiple is entered
CtlIdle ==
    /\ runs = 0
    /\ passIdx = 0
    /\ allRuns = <<>>
    /\ steady = FALSE
    /\ maxDev = FloatZero
    /\ ret = BenchStats("", 0, 0)
    /\ started = <<>>
    /\ cooldowns = 0
    /\ passes = <<>>

\* no orchestration has begun
NoVerdict == [value |-> FloatZero, class |-> ""]

OrchIdle ==
    /\ victim = 0
    /\ pools = <<>>
    /\ seeded = {}
    /\ noisePc = <<>>
    /\ stopNoise = FALSE
    /\ noiseWrites = {}
    /\ verdict = NoVerdict
    /\ tResults = <<>>
    /\ seedErr = {}
    /\ backend = <<>>
    /\ plan = {}
    /\ launchedAt = -1
    /\ isoStats = <<>>

\* no SeedData call is under way
NoSeed == [pc |-> "idle", impl |-> "", rows |-> 0, count |-> 0, i |-> 0, before |-> 0]

WarmIdle ==
    /\ warmup = 0
    /\ warmupIssued = 0
    /\ warmupFailed = 0

SeedIdle ==
    /\ accounts = 0
    /\ seed = NoSeed
    /\ seedLog = <<>>

SideIdle ==
    /\ WarmIdle
    /\ SeedIdle
    /\ written = {}
    /\ closes = 0
    /\ summary = <<>>

AuxIdle ==
    /\ now = 0
    /\ EntryIdle
    /\ CtlIdle
    /\ OrchIdle
    /\ SideIdle

Init ==
    /\ pcMain = "start"
    /\ results = <<>>
    /\ totalDuration = 0
    /\ \E p \in CountParams \cup TimedParams : Idle(p)
    /\ AuxIdle

\* PickRunner: params.Duration > 0 selects RunQueriesTimed, else RunQueries.
\* RunQueries up to wg.Wait: results := make([]QueryResult, params.Queries),
\* start := time.Now(), one goroutine per worker.
DispatchCount ==
    /\ pcMain = "start"
    /\ ~IsTimed
    /\ params.Concurrency # 0
    /\ results' = [k \in 1 .. params.Queries |-> ZeroResult]
    /\ pc' = [w \in Workers |-> "run"]
    /\ pcMain' = "wait"
    /\ UNCHANGED aux
    /\ UNCHANGED <<params, i, local, tmp, stopped, timerFired, mu, totalDuration,
                   stats, calls, failed, loads, flagSets, merges, callsAtStop,
                   inFlightAtStop>>

\* RunQueriesTimed up to wg.Wait: var results (nil), stopped (false),
\* start := time.Now(), time.AfterFunc armed, one goroutine per worker.
DispatchTimed ==
    /\ pcMain = "start"
    /\ IsTimed
    /\ results' = <<>>
    /\ stopped' = FALSE
    /\ pc' = [w \in Workers |-> "check"]
    /\ pcMain' = "wait"
    /\ UNCHANGED aux
    /\ UNCHANGED <<params, i, local, tmp, timerFired, mu, totalDuration, stats,
                   calls, failed, loads, flagSets, merges, callsAtStop,
                   inFlightAtStop>>

\* the loop body of a worker holds no break, return or retry: whatever the
\* call returned, the worker goes back to the head of its loop
\* a plausible slip: the loop is left when a call fails
LoopContinues_abortOnError(err) == ~err

LoopContinues(err) == TRUE

\* ---- count mode: the goroutine of RunQueries ------------------------------

\* for i := 0; i < queriesPerWorker; i++ { idx := offset + i; qStart := time.Now();
\* the backend call starts
CountIssue(w) ==
    /\ pc[w] = "run"
    /\ i[w] < queriesPerWorker
    /\ pc' = [pc EXCEPT ![w] = "call"]
    /\ calls' = [calls EXCEPT ![w] = @ + 1]
    /\ UNCHANGED aux
    /\ UNCHANGED <<params, pcMain, i, results, local, tmp, stopped, timerFired, mu,
                   totalDuration, stats, failed, loads, flagSets, merges,
                   callsAtStop, inFlightAtStop>>

\* the call returns: results[idx] = QueryResult{At: qStart, Duration: ..., Err: err}
CountComplete(w) ==
    /\ pc[w] = "call"
    /\ ~IsTimed
    /\ \E d \in BackendLatencies, err \in BOOLEAN :
         /\ results' = [results EXCEPT ![offset(w) + i[w] + 1] = QueryResult(1, d, err)]
         /\ failed' = [failed EXCEPT ![w] = @ + (IF err THEN 1 ELSE 0)]
         /\ pc' = [pc EXCEPT ![w] = IF LoopContinues(err) THEN "run" ELSE "done"]
    /\ i' = [i EXCEPT ![w] = @ + 1]
    /\ UNCHANGED aux
    /\ UNCHANGED <<params, pcMain, local, tmp, stopped, timerFired, mu,
                   totalDuration, stats, calls, loads, flagSets, merges,
                   callsAtStop, inFlightAtStop>>

\* i == queriesPerWorker: the goroutine returns (defer wg.Done())
CountExit(w) ==
    /\ pc[w] = "run"
    /\ i[w] >= queriesPerWorker
    /\ pc' = [pc EXCEPT ![w] = "done"]
    /\ UNCHANGED aux
    /\ UNCHANGED <<params, pcMain, i, results, local, tmp, stopped, timerFired, mu,
                   totalDuration, stats, calls, failed, loads, flagSets, merges,
                   callsAtStop, inFlightAtStop>>

\* ---- timed mode: the goroutine of RunQueriesTimed -------------------------

\* where a worker goes after recording a sample: back to `for !stopped.Load()`
\* a plausible slip: the flag is polled only after every second operation
AfterSample_skipLoad(w) == IF Len(local[w]) % 2 = 0 THEN "issue" ELSE "check"

\* a plausible slip: the flag is polled only from the third operation on
AfterSample_lateLoad(w) == IF Len(local[w]) < 2 THEN "issue" ELSE "check"

AfterSample(w) == "check"

RECURSIVE SumOver(_, _)
SumOver(f, S) ==
    IF S = {} THEN 0
    ELSE LET x == CHOOSE y \in S : TRUE IN f[x] + SumOver(f, S \ {x})

\* operations issued so far, and those about to be (the flag was read as false)
OpsStarted == SumOver(calls, Workers) + Cardinality({w \in Workers : pc[w] = "issue"})

\* for !stopped.Load(): one read of the flag.  Once the run has started MaxOps
\* operations, a worker that would start another waits here for the timer.
TimedCheck(w) ==
    /\ pc[w] = "check"
    /\ stopped \/ OpsStarted < MaxOps
    /\ loads' = [loads EXCEPT ![w] = @ + 1]
    /\ pc' = [pc EXCEPT ![w] = IF stopped THEN "lock" ELSE "issue"]
    /\ UNCHANGED aux
    /\ UNCHANGED <<params, pcMain, i, results, local, tmp, stopped, timerFired, mu,
                   totalDuration, stats, calls, failed, flagSets, merges,
                   callsAtStop, inFlightAtStop>>

\* qStart := time.Now(); the backend call starts
TimedIssue(w) ==
    /\ pc[w] = "issue"
    /\ pc' = [pc EXCEPT ![w] = "call"]
    /\ calls' = [calls EXCEPT ![w] = @ + 1]
    /\ UNCHANGED aux
    /\ UNCHANGED <<params, pcMain, i, results, local, tmp, stopped, timerFired, mu,
                   totalDuration, stats, failed, loads, flagSets, merges,
                   callsAtStop, inFlightAtStop>>

\* the call returns: local = append(local, QueryResult{...})
TimedComplete(w) ==
    /\ pc[w] = "call"
    /\ IsTimed
    /\ \E d \in BackendLatencies, err \in BOOLEAN :
         /\ local' = [local EXCEPT ![w] = Append(@, QueryResult(1, d, err))]
         /\ failed' = [failed EXCEPT ![w] = @ + (IF err THEN 1 ELSE 0)]
         /\ pc' = [pc EXCEPT ![w] = IF LoopContinues(err) THEN AfterSample(w) ELSE "lock"]
    /\ UNCHANGED aux
    /\ UNCHANGED <<params, pcMain, i, results, tmp, stopped, timerFired, mu,
                   totalDuration, stats, calls, loads, flagSets, merges,
                   callsAtStop, inFlightAtStop>>

\* mu.Lock() returns only when no goroutine holds mu
\* a plausible slip: the append is not guarded by the mutex
CanLock_noMutex(w) == TRUE

CanLock(w) == mu = NoHolder

\* mu.Lock(), then the read of results that append(results, local...) starts with
TimedLock(w) ==
    /\ pc[w] = "lock"
    /\ CanLock(w)
    /\ mu' = {w}
    /\ tmp' = [tmp EXCEPT ![w] = results]
    /\ pc' = [pc EXCEPT ![w] = "append"]
    /\ UNCHANGED aux
    /\ UNCHANGED <<params, pcMain, i, results, local, stopped, timerFired,
                   totalDuration, stats, calls, failed, loads, flagSets, merges,
                   callsAtStop, inFlightAtStop>>

\* mu.Unlock(): the holders of mu afterwards
\* a plausible slip: the goroutine returns with the mutex held
Unlock_missing(w) == mu

Unlock(w) == mu \ {w}

\* results = append(results, local...); mu.Unlock(); the goroutine returns
TimedAppend(w) ==
    /\ pc[w] = "append"
    /\ results' = tmp[w] \o local[w]
    /\ merges' = [merges EXCEPT ![w] = @ + 1]
    /\ mu' = Unlock(w)
    /\ pc' = [pc EXCEPT ![w] = "done"]
    /\ UNCHANGED aux
    /\ UNCHANGED <<params, pcMain, i, local, tmp, stopped, timerFired,
                   totalDuration, stats, calls, failed, loads, flagSets,
                   callsAtStop, inFlightAtStop>>

\* time.AfterFunc(params.Duration, func() { stopped.Store(true) })
TimerFire ==
    /\ pcMain = "wait"
    /\ IsTimed
    /\ ~timerFired
    /\ timerFired' = TRUE
    /\ stopped' = TRUE
    /\ flagSets' = flagSets + (IF stopped THEN 0 ELSE 1)
    /\ callsAtStop' = calls
    /\ inFlightAtStop' = {w \in Workers : pc[w] = "call"}
    /\ UNCHANGED aux
    /\ UNCHANGED <<params, pcMain, pc, i, results, local, tmp, mu, totalDuration,
                   stats, calls, failed, loads, merges>>

\* ---- the caller: wg.Wait(), time.Since(start), ComputeStats ---------------

\* wg.Wait() returns when every goroutine has run its deferred wg.Done()
\* a plausible slip: the wait is over when the first worker is done
WaitOver_firstDone == \E w \in Workers : pc[w] = "done"

WaitOver == \A w \in Workers : pc[w] = "done"

\* wg.Wait(); totalDuration := time.Since(start)
Join ==
    /\ pcMain = "wait"
    /\ WaitOver
    /\ \E d \in 1 .. MaxTotalDuration : totalDuration' = d
    /\ pcMain' = "joined"
    /\ UNCHANGED aux
    /\ UNCHANGED <<params, pc, i, results, local, tmp, stopped, timerFired, mu,
                   stats, calls, failed, loads, flagSets, merges, callsAtStop,
                   inFlightAtStop>>

\* return bench.ComputeStats(label, results, totalDuration)
Report ==
    /\ pcMain = "joined"
    /\ stats' = ComputeStats(RunLabel, results, totalDuration)
    /\ pcMain' = "done"
    /\ UNCHANGED aux
    /\ UNCHANGED <<params, pc, i, results, local, tmp, stopped, timerFired, mu,
                   totalDuration, calls, failed, loads, flagSets, merges,
                   callsAtStop, inFlightAtStop>>

Worker(w) ==
    \/ CountIssue(w)
    \/ CountComplete(w)
    \/ CountExit(w)
    \/ TimedCheck(w)
    \/ TimedIssue(w)
    \/ TimedComplete(w)
    \/ TimedLock(w)
    \/ TimedAppend(w)

Next ==
    \/ DispatchCount
    \/ DispatchTimed
    \/ TimerFire
    \/ Join
    \/ Report
    \/ \E w \in Workers : Worker(w)

Spec == Init /\ [][Next]_vars

(***************************************************************************)
(* ComputeStats on its own: the caller hands it any sample list and any    *)
(* totalDuration.                                                          *)
(***************************************************************************)
StatsLabel == "stats"

\* a sample is a recorded operation (its latency may round to 0) with or
\* without an error, or a zero-valued slot
SampleSpace ==
    {QueryResult(1, d, err) : d \in 0 .. MaxLatency, err \in BOOLEAN} \cup {ZeroResult}

SampleLists == UNION {[1 .. n -> SampleSpace] : n \in 0 .. MaxSamples}

NoRun == [Queries |-> 0, Concurrency |-> 1, Duration |-> 0]

InitStats ==
    /\ pcMain = "stats_input"
    /\ results \in SampleLists
    /\ totalDuration \in 0 .. MaxTotalDuration
    /\ Idle(NoRun)
    /\ AuxIdle

\* stats := bench.ComputeStats(label, results, totalDuration)
StatsCall ==
    /\ pcMain = "stats_input"
    /\ stats' = ComputeStats(StatsLabel, results, totalDuration)
    /\ pcMain' = "stats_done"
    /\ UNCHANGED aux
    /\ UNCHANGED <<params, pc, i, results, local, tmp, stopped, timerFired, mu,
                   totalDuration, calls, failed, loads, flagSets, merges,
                   callsAtStop, inFlightAtStop>>

NextStats == StatsCall

SpecStats == InitStats /\ [][NextStats]_vars

(***************************************************************************)
(* RunQueriesTimed with a clock.  main turns the duration flag into a      *)
(* whole number of seconds (params.Duration = n * time.Second), so the     *)
(* timer set by time.AfterFunc runs its function no earlier than           *)
(* params.Duration time units after it was armed.  A goroutine that can    *)
(* take a step (read the flag, start a call, take the free mutex, append)  *)
(* does so before the clock advances a whole unit; only a backend call, a  *)
(* held mutex and the wait for the timer span time units.                  *)
(***************************************************************************)
ClockParams ==
    [Queries : {0}, Concurrency : 1 .. ClockWorkers, Duration : {1}]

InitClock ==
    /\ pcMain = "start"
    /\ results = <<>>
    /\ totalDuration = 0
    /\ \E p \in ClockParams : Idle(p)
    /\ AuxIdle

\* worker w has a step it can take without waiting
Runnable(w) ==
    \/ pc[w] = "check" /\ (stopped \/ OpsStarted < MaxOps)
    \/ pc[w] = "issue"
    \/ pc[w] = "lock" /\ CanLock(w)
    \/ pc[w] = "append"

\* the timer set by time.AfterFunc(params.Duration, ...) is due
\* a plausible slip: the duration reaches AfterFunc as a count of nanoseconds,
\* and the timer is due as soon as it is armed
TimerDue_immediate == TRUE

TimerDue == now >= params.Duration

\* the function of the timer runs: stopped.Store(true)
TimerFireDue ==
    /\ TimerDue
    /\ TimerFire

\* one time unit passes while the timer is pending
Tick ==
    /\ pcMain = "wait"
    /\ ~timerFired
    /\ now < params.Duration
    /\ \A w \in Workers : ~Runnable(w)
    /\ now' = now + 1
    /\ UNCHANGED <<pcMain, workVars, sideVars, orchVars, entryVars, ctlVars>>

WorkerTimed(w) ==
    \/ TimedCheck(w)
    \/ TimedIssue(w)
    \/ TimedComplete(w)
    \/ TimedLock(w)
    \/ TimedAppend(w)

NextClock ==
    \/ DispatchTimed
    \/ Tick
    \/ TimerFireDue
    \/ Join
    \/ Report
    \/ \E w \in Workers : WorkerTimed(w)

SpecClock == InitClock /\ [][NextClock]_vars

(***************************************************************************)
(* The duration-bounded run under fair scheduling.                         *)
(***************************************************************************)
InitTimed ==
    /\ pcMain = "start"
    /\ results = <<>>
    /\ totalDuration = 0
    /\ \E p \in {q \in TimedParams : q.Queries = 0} : Idle(p)
    /\ AuxIdle

NextTimed ==
    \/ DispatchTimed
    \/ TimerFire
    \/ Join
    \/ Report
    \/ \E w \in Workers : WorkerTimed(w)

SpecTimed == InitTimed /\ [][NextTimed]_vars

\* The Go scheduler runs every runnable goroutine, the runtime timer fires, and
\* every backend call returns: each worker, the timer and the caller take
\* their next step when it stays possible.
FairTimed ==
    /\ SpecTimed
    /\ \A w \in 0 .. (MaxConcurrency - 1) : WF_vars(w \in Workers /\ WorkerTimed(w))
    /\ WF_vars(TimerFire)
    /\ WF_vars(Join)
    /\ WF_vars(Report)

(***************************************************************************)
(* float64 arithmetic on the pairs [num, den], for the QPS of whole runs.  *)
(* QPS is never negative, so +Inf is the only infinity and Inf - Inf,      *)
(* Inf / Inf and 0 / 0 are the only ways to NaN.                           *)
(***************************************************************************)
FloatNaN == FloatDiv(0, 0)

FloatInf == FloatDiv(1, 0)

IsNaNFloat(q) == q.num = 0 /\ q.den = 0

IsFiniteFloat(q) == q.den # 0

Abs(x) == IF x < 0 THEN -x ELSE x

\* a + b
FloatAdd(a, b) ==
    IF IsNaNFloat(a) \/ IsNaNFloat(b) THEN FloatNaN
    ELSE IF IsInfFloat(a) \/ IsInfFloat(b) THEN FloatInf
    ELSE FloatDiv(a.num * b.den + b.num * a.den, a.den * b.den)

\* a / float64(n), n > 0
FloatOverInt(a, n) ==
    IF IsFiniteFloat(a) THEN FloatDiv(a.num, a.den * n) ELSE a

\* a == b: false when either is NaN
FloatEq(a, b) ==
    /\ ~IsNaNFloat(a)
    /\ ~IsNaNFloat(b)
    /\ IF IsInfFloat(a) \/ IsInfFloat(b) THEN IsInfFloat(a) /\ IsInfFloat(b)
       ELSE a.num * b.den = b.num * a.den

\* a > b: false when either is NaN
FloatGt(a, b) ==
    /\ ~IsNaNFloat(a)
    /\ ~IsNaNFloat(b)
    /\ IF IsInfFloat(a) THEN ~IsInfFloat(b)
       ELSE IF IsInfFloat(b) THEN FALSE
       ELSE a.num * b.den > b.num * a.den

\* a <= b: false when either is NaN
FloatLeq(a, b) ==
    /\ ~IsNaNFloat(a)
    /\ ~IsNaNFloat(b)
    /\ ~FloatGt(a, b)

\* math.Abs(q - mean) / mean
AbsDevOver(q, mean) ==
    IF IsNaNFloat(q) \/ IsNaNFloat(mean) \/ IsInfFloat(mean) THEN FloatNaN
    ELSE IF IsInfFloat(q) THEN FloatInf
    ELSE FloatDiv(Abs(q.num * mean.den - mean.num * q.den) * mean.den,
                  q.den * mean.den * mean.num)

(***************************************************************************)
(* bench.MedianStats and bench.SteadyState.                                *)
(***************************************************************************)
\* for _, r := range runs { sum += r.QPS }
RECURSIVE SumQPS(_)
SumQPS(rs) ==
    IF rs = <<>> THEN FloatZero
    ELSE FloatAdd(SumQPS(SubSeq(rs, 1, Len(rs) - 1)), rs[Len(rs)].QPS)

\* for _, r := range runs { dev := ...; if dev > maxDev { maxDev = dev } }
RECURSIVE MaxDevOver(_, _)
MaxDevOver(rs, mean) ==
    IF rs = <<>> THEN FloatZero
    ELSE LET before == MaxDevOver(SubSeq(rs, 1, Len(rs) - 1), mean)
             dev == AbsDevOver(rs[Len(rs)].QPS, mean)
         IN IF FloatGt(dev, before) THEN dev ELSE before

\* return maxDev <= tolerance, maxDev
\* a plausible slip: a deviation equal to the tolerance is not steady
WithinTolerance_strict(dev, tolerance) ==
    FloatLeq(dev, tolerance) /\ ~FloatEq(dev, tolerance)

WithinTolerance(dev, tolerance) == FloatLeq(dev, tolerance)

SteadyState(rs, tolerance) ==
    IF Len(rs) < 2 THEN [steady |-> TRUE, maxDev |-> FloatZero]
    ELSE LET mean == FloatOverInt(SumQPS(rs), Len(rs))
         IN IF IsZeroFloat(mean) THEN [steady |-> FALSE, maxDev |-> FloatZero]
            ELSE LET dev == MaxDevOver(rs, mean)
                 IN [steady |-> WithinTolerance(dev, tolerance), maxDev |-> dev]

\* the key of the less function given to sort.Slice
\* a plausible slip: the runs are ordered by their average latency
SortKey_avg(r) == r.LatencyAvg

SortKey(r) == r.LatencyP50

\* sort.Slice is not stable: it may leave the slice in any order of its
\* elements in which no element is less than an earlier one
SortedRuns(rs) ==
    LET n == Len(rs)
        Orders == {f \in [1 .. n -> 1 .. n] : \A a, b \in 1 .. n : a # b => f[a] # f[b]}
    IN {s \in {[k \in 1 .. n |-> rs[f[k]]] : f \in Orders} :
          \A a, b \in 1 .. n : a < b => SortKey(s[a]) <= SortKey(s[b])}

\* return runs[len(runs)/2]
\* a plausible slip: the lower median of an even number of runs
MedianIndex_lower(n) == (n - 1) \div 2

MedianIndex(n) == n \div 2

\* the outcomes of MedianStats(rs), len(rs) > 0: what it leaves in the slice
\* (sorted in place) and what it returns
MedianStats(rs) ==
    IF Len(rs) = 1 THEN {[runs |-> rs, median |-> rs[1]]}
    ELSE {[runs |-> s, median |-> s[MedianIndex(Len(s)) + 1]] : s \in SortedRuns(rs)}

(***************************************************************************)
(* The multi-run controller, bench.RunMultiple.  runFn is the caller's     *)
(* closure: a pass returns any BenchStats.                                 *)
(***************************************************************************)
\* the p50 of a pass is 0 when none of its operations succeeded
PassP50 == 0 .. MaxP50

\* QPS of a pass as ComputeStats reports it: 0 (no operation succeeded), finite
\* values (19 and 21 lie exactly 5% off their mean, 42 is twice 21) and +Inf
\* (a run whose duration measured 0)
QPSValues ==
    {FloatDiv(q, 1) : q \in {0, 19, 21, 42}} \cup {FloatInf}

PassLabel == "pass"

PassStats(p50, qps) ==
    [BenchStats(PassLabel, 1, 1) EXCEPT !.LatencyP50 = p50, !.QPS = qps]

RunOutcomes == {PassStats(p50, qps) : p50 \in PassP50, qps \in QPSValues}

\* the label argument of RunMultiple
CtlLabel == "label"

\* label + " (median of " + fmt.Sprintf("%d", runs) + " runs)"
MedianLabel(label, n) == <<label, " (median of ", n, " runs)">>

\* time.Sleep(3 * time.Second)
Cooldown == 3

\* SteadyState(allRuns, 0.05)
Tolerance == FloatDiv(1, 20)

RunsArgs == -1 .. MaxRuns

InitMulti ==
    /\ pcMain = "rm_entry"
    /\ results = <<>>
    /\ totalDuration = 0
    /\ Idle(NoRun)
    /\ now = 0
    /\ EntryIdle
    /\ OrchIdle
    /\ SideIdle
    /\ runs \in RunsArgs
    /\ passIdx = 0
    /\ allRuns = <<>>
    /\ steady = FALSE
    /\ maxDev = FloatZero
    /\ ret = BenchStats("", 0, 0)
    /\ started = <<>>
    /\ cooldowns = 0
    /\ passes = <<>>

\* if runs <= 1
\* a plausible slip: only runs == 1 takes the short way
RunsOnce_onlyOne(n) == n = 1

RunsOnce(n) == n <= 1

\* if runs <= 1 { return runFn(0) }: runFn is called with index 0
RMSingleStart ==
    /\ pcMain = "rm_entry"
    /\ RunsOnce(runs)
    /\ started' = Append(started, 0)
    /\ pcMain' = "rm_single"
    /\ UNCHANGED <<workVars, sideVars, orchVars, now, entryVars, runs, passIdx, allRuns, steady, maxDev,
                   ret, cooldowns, passes>>

\* runFn(0) returns and RunMultiple returns its value
RMSingleEnd ==
    /\ pcMain = "rm_single"
    /\ \E r \in RunOutcomes :
         /\ ret' = r
         /\ passes' = Append(passes, r)
    /\ pcMain' = "rm_done"
    /\ UNCHANGED <<workVars, sideVars, orchVars, now, entryVars, runs, passIdx, allRuns, steady, maxDev,
                   started, cooldowns>>

\* allRuns := make([]BenchStats, runs); i := 0
RMEnter ==
    /\ pcMain = "rm_entry"
    /\ ~RunsOnce(runs)
    /\ allRuns' = [k \in 1 .. runs |-> BenchStats("", 0, 0)]
    /\ passIdx' = 0
    /\ pcMain' = "rm_loop"
    /\ UNCHANGED <<workVars, sideVars, orchVars, now, entryVars, runs, steady, maxDev, ret, started,
                   cooldowns, passes>>

\* i < runs: runFn(i) is called
RMPassStart ==
    /\ pcMain = "rm_loop"
    /\ passIdx < runs
    /\ started' = Append(started, passIdx)
    /\ pcMain' = "rm_running"
    /\ UNCHANGED <<workVars, sideVars, orchVars, now, entryVars, runs, passIdx, allRuns, steady, maxDev,
                   ret, cooldowns, passes>>

\* if i < runs-1 { time.Sleep(...) }
\* a plausible slip: the pause follows every pass
NeedsCooldown_everyPass(idx, n) == TRUE

NeedsCooldown(idx, n) == idx < n - 1

\* allRuns[i] = runFn(i); then the pause, or i++ when this was the last pass
RMPassEnd ==
    /\ pcMain = "rm_running"
    /\ \E r \in RunOutcomes :
         /\ allRuns' = [allRuns EXCEPT ![passIdx + 1] = r]
         /\ passes' = Append(passes, r)
    /\ IF NeedsCooldown(passIdx, runs)
       THEN pcMain' = "rm_sleep" /\ passIdx' = passIdx
       ELSE pcMain' = "rm_loop" /\ passIdx' = passIdx + 1
    /\ UNCHANGED <<workVars, sideVars, orchVars, now, entryVars, runs, steady, maxDev, ret, started,
                   cooldowns>>

\* time.Sleep(3 * time.Second) returns; i++
RMCooldown ==
    /\ pcMain = "rm_sleep"
    /\ now' = now + Cooldown
    /\ cooldowns' = cooldowns + 1
    /\ passIdx' = passIdx + 1
    /\ pcMain' = "rm_loop"
    /\ UNCHANGED <<workVars, sideVars, orchVars, entryVars, runs, allRuns, steady, maxDev, ret, started,
                   passes>>

\* the runs handed to MedianStats: all of them, whatever SteadyState returned
\* a plausible slip: the last pass is dropped when the set is not steady
MedianInput_dropUnsteady(rs, st) ==
    IF st \/ Len(rs) < 2 THEN rs ELSE SubSeq(rs, 1, Len(rs) - 1)

MedianInput(rs, st) == rs

\* the loop is over: steady, maxDev := SteadyState(allRuns, 0.05); both are
\* only printed
RMSteady ==
    /\ pcMain = "rm_loop"
    /\ passIdx >= runs
    /\ LET out == SteadyState(allRuns, Tolerance)
       IN /\ steady' = out.steady
          /\ maxDev' = out.maxDev
    /\ pcMain' = "rm_median"
    /\ UNCHANGED <<workVars, sideVars, orchVars, now, entryVars, runs, passIdx, allRuns, ret, started,
                   cooldowns, passes>>

\* the rows of the summary table: for i, r := range allRuns prints Run i+1
\* with r's figures, from the slice as it stands when the loop runs
SummaryRows(rs) == rs

\* median := MedianStats(allRuns); median.Label = ...; the summary table is
\* printed from allRuns; return median
RMMedian ==
    /\ pcMain = "rm_median"
    /\ \E out \in MedianStats(MedianInput(allRuns, steady)) :
         /\ allRuns' = out.runs
         /\ summary' = SummaryRows(out.runs)
         /\ ret' = [out.median EXCEPT !.Label = MedianLabel(CtlLabel, runs)]
    /\ pcMain' = "rm_done"
    /\ UNCHANGED <<workVars, warmVars, seedVars, written, closes, orchVars, now, entryVars, runs, passIdx, steady, maxDev, started,
                   cooldowns, passes>>

NextMulti ==
    \/ RMSingleStart
    \/ RMSingleEnd
    \/ RMEnter
    \/ RMPassStart
    \/ RMPassEnd
    \/ RMCooldown
    \/ RMSteady
    \/ RMMedian

SpecMulti == InitMulti /\ [][NextMulti]_vars

(***************************************************************************)
(* MedianStats and SteadyState on their own: the caller hands them any     *)
(* slice of runs.                                                          *)
(***************************************************************************)
RunSets == UNION {[1 .. n -> RunOutcomes] : n \in 0 .. MaxRuns}

InitRunSet ==
    /\ pcMain = "runset_input"
    /\ results = <<>>
    /\ totalDuration = 0
    /\ Idle(NoRun)
    /\ now = 0
    /\ EntryIdle
    /\ OrchIdle
    /\ SideIdle
    /\ runs = 0
    /\ passIdx = 0
    /\ allRuns \in RunSets
    /\ passes = allRuns
    /\ steady = FALSE
    /\ maxDev = FloatZero
    /\ ret = BenchStats("", 0, 0)
    /\ started = <<>>
    /\ cooldowns = 0

\* steady, maxDev := SteadyState(runs, 0.05)
SteadyCall ==
    /\ pcMain = "runset_input"
    /\ LET out == SteadyState(allRuns, Tolerance)
       IN /\ steady' = out.steady
          /\ maxDev' = out.maxDev
    /\ pcMain' = "steady_done"
    /\ UNCHANGED <<workVars, sideVars, orchVars, now, entryVars, runs, passIdx, allRuns, ret, started,
                   cooldowns, passes>>

\* median := MedianStats(runs); on an empty slice runs[0] panics
MedianCall ==
    /\ pcMain = "runset_input"
    /\ IF allRuns = <<>>
       THEN /\ pcMain' = "median_panic"
            /\ UNCHANGED <<allRuns, ret>>
       ELSE /\ pcMain' = "median_done"
            /\ \E out \in MedianStats(allRuns) :
                 /\ allRuns' = out.runs
                 /\ ret' = out.median
    /\ UNCHANGED <<workVars, sideVars, orchVars, now, entryVars, runs, passIdx, steady, maxDev, started,
                   cooldowns, passes>>

NextRunSet ==
    \/ SteadyCall
    \/ MedianCall

SpecRunSet == InitRunSet /\ [][NextRunSet]_vars

(***************************************************************************)
(* The entry points main dispatches to: pg and my RunOverhead,             *)
(* RunThroughput, RunMultiTenant, RunIsolation, and pg.RunScale            *)
(* (my.RunScale is called by main but is not part of the sources).  A      *)
(* measurement is recorded with the way it was bounded and the number of   *)
(* passes made for it.                                                     *)
(***************************************************************************)
PgTests == {"overhead", "throughput", "multi", "isolation", "scale"}

MyTests == {"overhead", "throughput", "multi", "isolation"}

EntryPoints ==
    {[db |-> "postgres", test |-> t] : t \in PgTests}
        \cup {[db |-> "mysql", test |-> t] : t \in MyTests}

\* the params main builds from the flags
EntryParams ==
    [Queries : {MaxQueries}, Concurrency : 1 .. MaxConcurrency, Duration : {0, 1},
     Runs : 0 .. MaxRuns]

InitEntry ==
    /\ pcMain = "main"
    /\ results = <<>>
    /\ totalDuration = 0
    /\ \E p \in EntryParams : Idle(p)
    /\ now = 0
    /\ entry \in EntryPoints
    /\ measured = <<>>
    /\ CtlIdle
    /\ OrchIdle
    /\ SideIdle

\* victimConc := 5
victimConc == 5

\* PickRunner, and the runOnce closures of the fan-out and scale tests:
\* params.Duration > 0 selects the timed runner, else the counted one
PickMode(p) == IF p.Duration > 0 THEN "timed" ELSE "count"

\* if params.Runs > 1 { bench.RunMultiple(params.Runs, ...) } else { one call }
Measurement(phase, p, n) ==
    [phase |-> phase, mode |-> PickMode(p), controller |-> n > 1,
     passes |-> IF n > 1 THEN n ELSE 1,
     queries |-> p.Queries, concurrency |-> p.Concurrency]

\* a call of RunQueries itself: counted, one pass
DirectMeasurement(phase, p) ==
    [phase |-> phase, mode |-> "count", controller |-> FALSE, passes |-> 1,
     queries |-> p.Queries, concurrency |-> p.Concurrency]

\* my.RunIsolation: victimParams carries Queries, Warmup, SeedRows and Duration
VictimParamsMy(p) ==
    [Queries |-> p.Queries, Concurrency |-> victimConc, Duration |-> p.Duration,
     Runs |-> 0]

\* pg.RunIsolation: the BenchParams literal sets Queries, Concurrency, Warmup
\* and SeedRows; Duration and Runs are left zero
VictimParamsPg(p) ==
    [Queries |-> p.Queries, Concurrency |-> victimConc, Duration |-> 0, Runs |-> 0]

OverheadPhases == <<"direct", "proxy">>

IsolationPhases == <<"baseline", "noise">>

\* the measurement m is made as the next one of the entry point
Measure(phases, m) ==
    /\ pcMain = "main"
    /\ Len(measured) < Len(phases)
    /\ m.phase = phases[Len(measured) + 1]
    /\ measured' = Append(measured, m)
    /\ UNCHANGED <<pcMain, workVars, sideVars, orchVars, now, entry, ctlVars>>

\* pg.RunOverhead, my.RunOverhead: direct, then through the proxy
RunOverhead ==
    /\ entry.test = "overhead"
    /\ \E ph \in {"direct", "proxy"} :
         Measure(OverheadPhases, Measurement(ph, params, params.Runs))

\* pg.RunThroughput, my.RunThroughput
RunThroughput ==
    /\ entry.test = "throughput"
    /\ Measure(<<"proxy">>, Measurement("proxy", params, params.Runs))

\* pg.RunMultiTenant, my.RunMultiTenant: runOnce is runMultiTimed or runMultiCount
RunMultiTenant ==
    /\ entry.test = "multi"
    /\ Measure(<<"tenants">>, Measurement("tenants", params, params.Runs))

\* pg.RunScale: runOnce is scaleRunTimed or scaleRunCount
RunScale ==
    /\ entry = [db |-> "postgres", test |-> "scale"]
    /\ Measure(<<"tenants">>, Measurement("tenants", params, params.Runs))

\* my.RunIsolation: the victim alone, then under noise, both through PickRunner
RunIsolationMy ==
    /\ entry = [db |-> "mysql", test |-> "isolation"]
    /\ \E ph \in {"baseline", "noise"} :
         Measure(IsolationPhases, Measurement(ph, VictimParamsMy(params), params.Runs))

\* pg.RunIsolation: the victim alone, then under noise, both by RunQueries
RunIsolationPg ==
    /\ entry = [db |-> "postgres", test |-> "isolation"]
    /\ \E ph \in {"baseline", "noise"} :
         Measure(IsolationPhases, DirectMeasurement(ph, VictimParamsPg(params)))

\* the measurements an entry point makes
PhasesOf(e) ==
    IF e.test = "overhead" THEN OverheadPhases
    ELSE IF e.test = "isolation" THEN IsolationPhases
    ELSE IF e.test = "throughput" THEN <<"proxy">>
    ELSE <<"tenants">>

\* the entry point returns to main
EntryReturn ==
    /\ pcMain = "main"
    /\ Len(measured) = Len(PhasesOf(entry))
    /\ pcMain' = "main_done"
    /\ UNCHANGED <<workVars, sideVars, orchVars, now, entryVars, ctlVars>>

NextEntry ==
    \/ RunOverhead
    \/ RunThroughput
    \/ RunMultiTenant
    \/ RunScale
    \/ RunIsolationMy
    \/ RunIsolationPg
    \/ EntryReturn

SpecEntry == InitEntry /\ [][NextEntry]_vars

(***************************************************************************)
(* bench.PrintIsolation: the impact of the noise on the victim's p50.       *)
(***************************************************************************)

\* a < b: false when either is NaN
FloatLt(a, b) == FloatGt(b, a)

\* if p50Diff < 20 { ISOLATED }
IsolatedBelow == 20

\* else if p50Diff < 50 { MODERATE IMPACT }
ModerateBelow == 50

\* p50Diff := float64(noise.LatencyP50-baseline.LatencyP50) /
\*            float64(baseline.LatencyP50) * 100
\* a baseline p50 of zero divides by zero: +Inf, or NaN when the noise p50 is
\* zero as well
p50Diff(baseline, noise) ==
    FloatDiv((noise.LatencyP50 - baseline.LatencyP50) * 100, baseline.LatencyP50)

\* a plausible slip: the second threshold is inclusive
ImpactClass_inclusive(d) ==
    IF FloatLt(d, FloatDiv(IsolatedBelow, 1)) THEN "isolated"
    ELSE IF FloatLeq(d, FloatDiv(ModerateBelow, 1)) THEN "moderate impact"
    ELSE "noisy neighbor detected"

\* a plausible slip: the moderate class reaches up to twice the baseline
ImpactClass_wide(d) ==
    IF FloatLt(d, FloatDiv(IsolatedBelow, 1)) THEN "isolated"
    ELSE IF FloatLt(d, FloatDiv(2 * ModerateBelow, 1)) THEN "moderate impact"
    ELSE "noisy neighbor detected"

\* the if / else if / else chain that prints the verdict
ImpactClass(d) ==
    IF FloatLt(d, FloatDiv(IsolatedBelow, 1)) THEN "isolated"
    ELSE IF FloatLt(d, FloatDiv(ModerateBelow, 1)) THEN "moderate impact"
    ELSE "noisy neighbor detected"

PrintIsolation(baseline, noise) ==
    [value |-> p50Diff(baseline, noise),
     class |-> ImpactClass(p50Diff(baseline, noise))]

(***************************************************************************)
(* pg.RunIsolation and my.RunIsolation: set-up, the baseline measurement,   *)
(* the noise workers, the measurement under noise, stop, wait, report.      *)
(* SpecIso.                                                                 *)
(***************************************************************************)

\* the noisy list has nine tenants, bench02 .. bench10; MaxNoisy of them here
MaxNoisy == 2

\* for w := 0; w < 5; w++: five workers per noisy tenant; NoiseWorkers here
NoiseWorkers == 1

\* time.Sleep(2 * time.Second)
RampUp == 2

\* noisy := []string{"bench_.._bench02", ...}: tenant k stands for benchk
noisy == [k \in 1 .. MaxNoisy |-> k + 1]

\* -proxy-db is a free string: the victim is any tenant, bench01 included
ProxyDatabases == 1 .. (MaxNoisy + 1)

IsoEntries ==
    {[db |-> "postgres", test |-> "isolation"], [db |-> "mysql", test |-> "isolation"]}

IsoParams ==
    [Queries : {MaxQueries}, Concurrency : {MaxConcurrency}, Duration : {0, 1},
     Runs : 0 .. MaxRuns]

NoiseIds == 1 .. (MaxNoisy * NoiseWorkers)

\* for _, p := range noisyPools { for w := 0; w < 5; w++ { go func(pool) ...
\* worker w writes through the pool of this entry of the noisy list
NoisePoolOf(w) == ((w - 1) \div NoiseWorkers) + 1

InitIso ==
    /\ pcMain = "iso_setup"
    /\ results = <<>>
    /\ totalDuration = 0
    /\ \E p \in IsoParams : Idle(p)
    /\ now = 0
    /\ entry \in IsoEntries
    /\ measured = <<>>
    /\ CtlIdle
    /\ victim \in ProxyDatabases
    /\ pools = <<>>
    /\ seeded = {}
    /\ noisePc = [w \in NoiseIds |-> "idle"]
    /\ stopNoise = FALSE
    /\ noiseWrites = {}
    /\ verdict = NoVerdict
    /\ tResults = <<>>
    /\ seedErr = {}
    /\ backend = <<>>
    /\ plan = {}
    /\ launchedAt = -1
    /\ isoStats = <<>>
    /\ SideIdle

\* the databases in the order the set-up connects to them: the victim, then
\* the noisy list
SetupOrder == <<victim>> \o noisy

\* every pool opened so far has been seeded
AllSeeded == seeded = 1 .. Len(pools)

SetupComplete == Len(pools) = Len(SetupOrder) /\ AllSeeded

isoRest == <<workVars, sideVars, now, entryVars, ctlVars, victim, noisePc, stopNoise, noiseWrites,
             verdict, scaleVars, launchedAt, isoStats>>

\* bench.Connect / ConnectMySQL for the victim or the next noisy tenant;
\* if err != nil { return }
IsoConnect ==
    /\ pcMain = "iso_setup"
    /\ AllSeeded
    /\ Len(pools) < Len(SetupOrder)
    /\ \E ok \in BOOLEAN :
         IF ok
         THEN pools' = Append(pools, SetupOrder[Len(pools) + 1]) /\ pcMain' = pcMain
         ELSE pools' = pools /\ pcMain' = "iso_aborted"
    /\ UNCHANGED <<isoRest, seeded>>

\* bench.SeedData / SeedDataMySQL on the pool just opened;
\* if err != nil { return }
IsoSeed ==
    /\ pcMain = "iso_setup"
    /\ ~AllSeeded
    /\ \E ok \in BOOLEAN :
         IF ok
         THEN seeded' = seeded \cup {Len(pools)} /\ pcMain' = pcMain
         ELSE seeded' = seeded /\ pcMain' = "iso_aborted"
    /\ UNCHANGED <<isoRest, pools>>

\* the params of the victim's measurements
VictimParams == IF entry.db = "mysql" THEN VictimParamsMy(params) ELSE VictimParamsPg(params)

\* pg: bench.RunQueries; my: RunMultiple when params.Runs > 1, else PickRunner
IsoMeasurement(phase) ==
    IF entry.db = "mysql"
    THEN Measurement(phase, VictimParams, params.Runs)
    ELSE DirectMeasurement(phase, VictimParams)

isoCallRest == <<workVars, sideVars, now, entry, allRuns, steady, maxDev, ret, started, cooldowns,
                 passes, orchVars>>

\* Phase 1: the victim alone
IsoBaselineCall ==
    /\ pcMain = "iso_setup"
    /\ SetupComplete
    /\ measured' = Append(measured, IsoMeasurement("baseline"))
    /\ runs' = IsoMeasurement("baseline").passes
    /\ passIdx' = 0
    /\ pcMain' = "iso_pass"
    /\ UNCHANGED isoCallRest

isoPassRest == <<workVars, sideVars, entryVars, runs, allRuns, steady, maxDev, ret, started, passes,
                 orchVars>>

\* a pass of the measurement begins
IsoPassStart ==
    /\ pcMain = "iso_pass"
    /\ passIdx < runs
    /\ pcMain' = "iso_running"
    /\ UNCHANGED <<isoPassRest, now, passIdx, cooldowns>>

\* the pass returns; RunMultiple pauses between passes
IsoPassEnd ==
    /\ pcMain = "iso_running"
    /\ IF NeedsCooldown(passIdx, runs)
       THEN pcMain' = "iso_sleep" /\ passIdx' = passIdx
       ELSE pcMain' = "iso_pass" /\ passIdx' = passIdx + 1
    /\ UNCHANGED <<isoPassRest, now, cooldowns>>

IsoCooldown ==
    /\ pcMain = "iso_sleep"
    /\ now' = now + Cooldown
    /\ cooldowns' = cooldowns + 1
    /\ passIdx' = passIdx + 1
    /\ pcMain' = "iso_pass"
    /\ UNCHANGED isoPassRest

\* the stats a measurement of the victim may return
IsoOutcomes == {PassStats(p50, FloatDiv(21, 1)) : p50 \in PassP50}

isoRetRest == <<workVars, sideVars, now, entryVars, ctlVars, victim, pools, seeded, noisePc, stopNoise,
                noiseWrites, verdict, scaleVars, launchedAt>>

\* baselineStats = ... / noiseStats = ...: the measurement returns its stats
IsoMeasureReturn ==
    /\ pcMain = "iso_pass"
    /\ passIdx >= runs
    /\ \E r \in IsoOutcomes : isoStats' = Append(isoStats, r)
    /\ pcMain' = IF Len(measured) = 1 THEN "iso_launch" ELSE "iso_stop"
    /\ UNCHANGED isoRetRest

isoNoiseRest == <<workVars, sideVars, now, entryVars, ctlVars, victim, pools, seeded, stopNoise,
                  verdict, scaleVars, launchedAt, isoStats>>

\* noiseWg.Add(1); go func(pool) {...}(p): the workers are started in loop order
IsoLaunch(w) ==
    /\ pcMain = "iso_launch"
    /\ noisePc[w] = "idle"
    /\ \A v \in NoiseIds : v < w => noisePc[v] # "idle"
    /\ noisePc' = [noisePc EXCEPT ![w] = "select"]
    /\ UNCHANGED <<isoNoiseRest, pcMain, noiseWrites>>

AllLaunched == \A w \in NoiseIds : noisePc[w] # "idle"

\* time.Sleep(2 * time.Second) after the launch loop
IsoRampUp ==
    /\ pcMain = "iso_launch"
    /\ AllLaunched
    /\ launchedAt' = now
    /\ now' = now + RampUp
    /\ pcMain' = "iso_noise_call"
    /\ UNCHANGED <<workVars, sideVars, entryVars, ctlVars, victim, pools, seeded, noisePc, stopNoise,
                   noiseWrites, verdict, scaleVars, isoStats>>

\* Phase 2: the victim under noise
IsoNoiseCall ==
    /\ pcMain = "iso_noise_call"
    /\ measured' = Append(measured, IsoMeasurement("noise"))
    /\ runs' = IsoMeasurement("noise").passes
    /\ passIdx' = 0
    /\ pcMain' = "iso_pass"
    /\ UNCHANGED isoCallRest

\* a plausible slip: the select has no stop case
StopReceived_never == FALSE

\* case <-stopNoise: a receive from the channel succeeds once it is closed
StopReceived == stopNoise

\* select { case <-stopNoise: return; default: pool.Exec(UPDATE ...) }
NoiseSelect(w) ==
    /\ noisePc[w] = "select"
    /\ IF StopReceived
       THEN /\ noisePc' = [noisePc EXCEPT ![w] = "done"]
            /\ noiseWrites' = noiseWrites
       ELSE /\ noisePc' = [noisePc EXCEPT ![w] = "exec"]
            /\ noiseWrites' = noiseWrites \cup {pools[1 + NoisePoolOf(w)]}
    /\ UNCHANGED <<isoNoiseRest, pcMain>>

\* a plausible slip: a failed write ends the worker
NoiseContinues_stopOnError(err) == ~err

\* the error of Exec is dropped: the loop goes on whatever it returned
NoiseContinues(err) == TRUE

\* pool.Exec returns
NoiseExecReturn(w) ==
    /\ noisePc[w] = "exec"
    /\ \E err \in BOOLEAN :
         noisePc' = [noisePc EXCEPT ![w] = IF NoiseContinues(err) THEN "select" ELSE "done"]
    /\ UNCHANGED <<isoNoiseRest, pcMain, noiseWrites>>

\* close(stopNoise)
IsoStop ==
    /\ pcMain = "iso_stop"
    /\ stopNoise' = TRUE
    /\ closes' = closes + 1
    /\ pcMain' = "iso_wait"
    /\ UNCHANGED <<workVars, warmVars, seedVars, written, summary, now, entryVars, ctlVars, victim, pools, seeded, noisePc,
                   noiseWrites, verdict, scaleVars, launchedAt, isoStats>>

\* a plausible slip: the report does not wait for the workers
NoiseWaitOver_noWait == TRUE

\* noiseWg.Wait() returns when every worker has called Done
NoiseWaitOver == \A w \in NoiseIds : noisePc[w] = "done"

\* noiseWg.Wait(); bench.PrintIsolation(baselineStats, noiseStats)
IsoReport ==
    /\ pcMain = "iso_wait"
    /\ NoiseWaitOver
    /\ verdict' = PrintIsolation(isoStats[1], isoStats[2])
    /\ pcMain' = "iso_reported"
    /\ UNCHANGED <<workVars, sideVars, now, entryVars, ctlVars, victim, pools, seeded, noisePc,
                   stopNoise, noiseWrites, scaleVars, launchedAt, isoStats>>

NextIso ==
    \/ IsoConnect
    \/ IsoSeed
    \/ IsoBaselineCall
    \/ IsoPassStart
    \/ IsoPassEnd
    \/ IsoCooldown
    \/ IsoMeasureReturn
    \/ \E w \in NoiseIds : IsoLaunch(w)
    \/ IsoRampUp
    \/ IsoNoiseCall
    \/ \E w \in NoiseIds : NoiseSelect(w)
    \/ \E w \in NoiseIds : NoiseExecReturn(w)
    \/ IsoStop
    \/ IsoReport

SpecIso == InitIso /\ [][NextIso]_vars

\* Every Exec returns and the scheduler runs runnable goroutines: a noise
\* worker takes its next step, and the orchestrator closes the channel and
\* returns from noiseWg.Wait() when it can.
FairIso ==
    /\ SpecIso
    /\ \A w \in NoiseIds : WF_vars(NoiseSelect(w) \/ NoiseExecReturn(w))
    /\ WF_vars(IsoStop)
    /\ WF_vars(IsoReport)

(***************************************************************************)
(* bench.PrintIsolation applied to a pair of measurements.  SpecImpact.     *)
(***************************************************************************)

\* largest p50 latency of the two measurements handed to PrintIsolation
MaxImpactP50 == 10

ImpactP50 == 0 .. MaxImpactP50

InitImpact ==
    /\ pcMain = "impact_input"
    /\ results = <<>>
    /\ totalDuration = 0
    /\ Idle(NoRun)
    /\ now = 0
    /\ EntryIdle
    /\ CtlIdle
    /\ victim = 0
    /\ pools = <<>>
    /\ seeded = {}
    /\ noisePc = <<>>
    /\ stopNoise = FALSE
    /\ noiseWrites = {}
    /\ verdict = NoVerdict
    /\ tResults = <<>>
    /\ seedErr = {}
    /\ backend = <<>>
    /\ plan = {}
    /\ launchedAt = -1
    /\ \E b \in ImpactP50, n \in ImpactP50 :
         isoStats = <<PassStats(b, FloatDiv(21, 1)), PassStats(n, FloatDiv(21, 1))>>
    /\ SideIdle

\* bench.PrintIsolation(baselineStats, noiseStats)
ImpactCall ==
    /\ pcMain = "impact_input"
    /\ verdict' = PrintIsolation(isoStats[1], isoStats[2])
    /\ pcMain' = "impact_done"
    /\ UNCHANGED <<workVars, sideVars, now, entryVars, ctlVars, victim, pools, seeded, noisePc,
                   stopNoise, noiseWrites, scaleVars, launchedAt, isoStats>>

NextImpact == ImpactCall

SpecImpact == InitImpact /\ [][NextImpact]_vars

(***************************************************************************)
(* The fan-out arithmetic of pg.runMultiCount and pg.scaleRunCount.         *)
(* Tenants and workers are numbered from 0 as in the source.               *)
(***************************************************************************)

\* if queriesPerTenant < 10 { queriesPerTenant = 10 }
MinQueriesPerTenant == 10

\* concPerTenant := params.Concurrency / len(tenants); if < 1 { = 1 }
concPerTenant(c, nTenants) == IF c \div nTenants < 1 THEN 1 ELSE c \div nTenants

\* runMultiCount: queriesPerTenant := params.Queries / len(tenants)
multiQueriesPerTenant(q, nTenants) == q \div nTenants

\* scaleRunCount: the same quotient, raised to 10 when it is smaller
scaleQueriesPerTenant(q, nTenants) ==
    IF q \div nTenants < MinQueriesPerTenant THEN MinQueriesPerTenant ELSE q \div nTenants

\* workerQueries := queriesPerTenant / concPerTenant
workerQueries(qpt, cpt) == qpt \div cpt

\* a plausible slip: the tenant's offset is left out
multiWorkerOffset_noTenant(t, w, qpt, cpt) == w * workerQueries(qpt, cpt)

\* runMultiCount: workerOffset := tenantOffset + w*workerQueries, with
\* tenantOffset := t * queriesPerTenant
multiWorkerOffset(t, w, qpt, cpt) == t * qpt + w * workerQueries(qpt, cpt)

\* scaleRunCount: workerOffset := w * workerQueries, into the tenant's own slice
scaleWorkerOffset(w, qpt, cpt) == w * workerQueries(qpt, cpt)

(***************************************************************************)
(* computeScaleStats: per-tenant stats, overall stats, fairness.            *)
(* A pool of 0 is a nil pool.  Durations are in nanoseconds.                *)
(***************************************************************************)

\* Duration.Microseconds(): whole microseconds, the rest is cut off
NsPerMicrosecond == 1000

Microseconds(d) == d \div NsPerMicrosecond

\* if fairnessRatio < 3.0 { FAIR }
FairBelow == 3

\* else if fairnessRatio < 5.0 { MODERATE }
ModerateFairBelow == 5

\* if pools[i] == nil { continue }
HasPool(ps, t) == ps[t] # 0

\* a plausible slip: the tenants without a pool are not skipped
Measured_all(ps, t) == TRUE

\* the tenants whose samples computeScaleStats takes in
Measured(ps, t) == HasPool(ps, t)

\* tResults[i].Stats = bench.ComputeStats(tResults[i].Name, tResults[i].Results, d)
TenantStats(tr, ps, d) ==
    [t \in DOMAIN tr |->
        IF HasPool(ps, t)
        THEN [tr[t] EXCEPT !.Stats = ComputeStats(tr[t].Name, tr[t].Results, d)]
        ELSE tr[t]]

RECURSIVE AllResultsUpTo(_, _, _)
\* allResults = append(allResults, tResults[i].Results...) for i = 0 .. n-1
AllResultsUpTo(tr, ps, n) ==
    IF n = 0 THEN <<>>
    ELSE AllResultsUpTo(tr, ps, n - 1) \o (IF Measured(ps, n) THEN tr[n].Results ELSE <<>>)

AllResults(tr, ps) == AllResultsUpTo(tr, ps, Len(tr))

RECURSIVE TenantP50sUpTo(_, _, _)
\* tenantP50s = append(tenantP50s, float64(Stats.LatencyP50.Microseconds()))
TenantP50sUpTo(tr, ps, n) ==
    IF n = 0 THEN <<>>
    ELSE TenantP50sUpTo(tr, ps, n - 1)
            \o (IF HasPool(ps, n) THEN <<Microseconds(tr[n].Stats.LatencyP50)>> ELSE <<>>)

ScaleLabel == "Scale Test"

\* overall := bench.ComputeStats(label, allResults, totalDuration)
OverallStats(tr, ps, d) == ComputeStats(ScaleLabel, AllResults(tr, ps), d)

\* the if / else if / else chain at the end of the fairness analysis
FairnessClass(r) ==
    IF FloatLt(r, FloatDiv(FairBelow, 1)) THEN "fair"
    ELSE IF FloatLt(r, FloatDiv(ModerateFairBelow, 1)) THEN "moderate"
    ELSE "unfair"

\* sort.Float64s(tenantP50s); fastest is the first, slowest the last;
\* fairnessRatio := float64(slowestP50) / float64(fastestP50)
FairnessRatio(p50s) ==
    LET sorted == SortDurations(p50s)
    IN  FloatDiv(sorted[Len(sorted)] * NsPerMicrosecond, sorted[1] * NsPerMicrosecond)

\* if len(tenantP50s) > 0 { ... }: nothing is printed for an empty list
Fairness(p50s) ==
    IF Len(p50s) > 0
    THEN [value |-> FairnessRatio(p50s), class |-> FairnessClass(FairnessRatio(p50s))]
    ELSE NoVerdict

(***************************************************************************)
(* pg.RunScale: connect, seed, run, computeScaleStats.  SpecScale.          *)
(***************************************************************************)

\* buildTenantList: a hundred tenants, bench01 .. bench100; ScaleTenants here
ScaleTenants == 2

\* most calls a worker of the timed runner makes before the flag is set
ScaleMaxOps == 1

ScaleParams ==
    [Queries : {25}, Concurrency : {1, 4}, Duration : {0, 1}, Runs : {1}]

ScaleConc(p) == concPerTenant(p.Concurrency, ScaleTenants)

\* totalConc := concPerTenant * len(tenants): worker wid = t*concPerTenant + w
ScaleWorkerIds(p) == 0 .. (ScaleConc(p) * ScaleTenants - 1)

\* the entry of tResults and pools that worker wid was started for
TenantOf(wid) == (wid \div ScaleConc(params)) + 1

WorkerNo(wid) == wid % ScaleConc(params)

\* the backend fails no call of a tenant, or every second one
ErrPatterns == {0, 2}

\* the backend answers tenant t in t microseconds
TenantLatency(t) == t * NsPerMicrosecond

\* the sample of the k-th call (from 0) on behalf of tenant t
ScaleSample(t, k) ==
    QueryResult(0, TenantLatency(t), backend[t] > 0 /\ k % backend[t] = 0)

InitScale ==
    /\ pcMain = "scale_connect"
    /\ results = <<>>
    /\ totalDuration = 0
    /\ \E p \in ScaleParams :
         /\ params = p
         /\ pc = [w \in ScaleWorkerIds(p) |-> "idle"]
         /\ i = [w \in ScaleWorkerIds(p) |-> 0]
         /\ local = [w \in ScaleWorkerIds(p) |-> <<>>]
         /\ tmp = [w \in ScaleWorkerIds(p) |-> <<>>]
         /\ calls = [w \in ScaleWorkerIds(p) |-> 0]
         /\ failed = [w \in ScaleWorkerIds(p) |-> 0]
         /\ loads = [w \in ScaleWorkerIds(p) |-> 0]
         /\ merges = [w \in ScaleWorkerIds(p) |-> 0]
         /\ callsAtStop = [w \in ScaleWorkerIds(p) |-> 0]
    /\ stopped = FALSE
    /\ timerFired = FALSE
    /\ mu = NoHolder
    /\ stats = BenchStats("", 0, 0)
    /\ flagSets = 0
    /\ inFlightAtStop = {}
    /\ now = 0
    /\ entry = [db |-> "postgres", test |-> "scale"]
    /\ measured = <<>>
    /\ CtlIdle
    /\ victim = 0
    /\ pools = <<>>
    /\ seeded = {}
    /\ noisePc = <<>>
    /\ stopNoise = FALSE
    /\ noiseWrites = {}
    /\ verdict = NoVerdict
    /\ tResults = <<>>
    /\ seedErr = {}
    /\ backend \in [1 .. ScaleTenants -> ErrPatterns]
    /\ plan = {}
    /\ launchedAt = -1
    /\ isoStats = <<>>
    /\ SideIdle

scaleRunVars == <<pc, i, local, calls, stopped, timerFired, flagSets, merges, stats,
                  totalDuration>>

scaleFixed == <<params, results, tmp, mu, failed, loads, callsAtStop, inFlightAtStop, now,
                entry, ctlVars, victim, noisePc, stopNoise, noiseWrites, launchedAt,
                isoStats, backend, plan, sideVars>>

\* pool, err := Connect(cfg, "disable");
\* if err != nil { connectFailed++; continue }; pools[i] = pool
ScaleConnect ==
    /\ pcMain = "scale_connect"
    /\ \E ok \in BOOLEAN :
         pools' = Append(pools, IF ok THEN Len(pools) + 1 ELSE 0)
    /\ pcMain' = IF Len(pools) + 1 = ScaleTenants THEN "scale_seed" ELSE pcMain
    /\ UNCHANGED <<scaleFixed, scaleRunVars, measured, seeded, seedErr, tResults, verdict>>

\* go func(p, idx): if err := SeedData(p, ...); err != nil { seedFailed++ }
ScaleSeed(t) ==
    /\ pcMain = "scale_seed"
    /\ HasPool(pools, t)
    /\ t \notin seeded \cup seedErr
    /\ \E ok \in BOOLEAN :
         IF ok
         THEN seeded' = seeded \cup {t} /\ seedErr' = seedErr
         ELSE seeded' = seeded /\ seedErr' = seedErr \cup {t}
    /\ UNCHANGED <<scaleFixed, scaleRunVars, pcMain, measured, pools, tResults, verdict>>

\* seedWg.Wait() returns
SeedWaitOver == \A t \in 1 .. ScaleTenants : HasPool(pools, t) => t \in seeded \cup seedErr

\* the goroutines are started for the tenants that have a pool
\* a plausible slip: the pool == nil test is missing
LaunchScale_all(position) == [wid \in DOMAIN pc |-> position]

LaunchScale(position) ==
    [wid \in DOMAIN pc |-> IF HasPool(pools, TenantOf(wid)) THEN position ELSE "idle"]

\* runOnce with params.Duration == 0: scaleRunCount up to the go statements
ScaleRunCount ==
    /\ pcMain = "scale_seed"
    /\ SeedWaitOver
    /\ params.Duration = 0
    /\ measured' = Append(measured, Measurement("scale", params, params.Runs))
    /\ tResults' =
         [t \in 1 .. ScaleTenants |->
            [Name |-> t,
             Results |-> [k \in 1 .. scaleQueriesPerTenant(params.Queries, ScaleTenants)
                            |-> ZeroResult],
             Stats |-> BenchStats("", 0, 0)]]
    /\ pc' = LaunchScale("count")
    /\ pcMain' = "scale_wait"
    /\ UNCHANGED <<scaleFixed, i, local, calls, stopped, timerFired, flagSets, merges, stats,
                   totalDuration, pools, seeded, seedErr, verdict>>

\* runOnce with params.Duration > 0: scaleRunTimed up to the go statements;
\* the collectors are empty
ScaleRunTimed ==
    /\ pcMain = "scale_seed"
    /\ SeedWaitOver
    /\ params.Duration > 0
    /\ measured' = Append(measured, Measurement("scale", params, params.Runs))
    /\ tResults' =
         [t \in 1 .. ScaleTenants |->
            [Name |-> t, Results |-> <<>>, Stats |-> BenchStats("", 0, 0)]]
    /\ pc' = LaunchScale("timed")
    /\ pcMain' = "scale_wait"
    /\ UNCHANGED <<scaleFixed, i, local, calls, stopped, timerFired, flagSets, merges, stats,
                   totalDuration, pools, seeded, seedErr, verdict>>

scaleWorkerRest == <<scaleFixed, pcMain, measured, pools, seeded, seedErr, verdict, stopped,
                     timerFired, flagSets, stats, totalDuration>>

\* for i := 0; i < count; i++ { idx := offset + i; tResults[tIdx].Results[idx] = ... }
ScaleCountStep(wid) ==
    /\ pc[wid] = "count"
    /\ LET t == TenantOf(wid)
           qpt == scaleQueriesPerTenant(params.Queries, ScaleTenants)
           cpt == ScaleConc(params)
           idx == scaleWorkerOffset(WorkerNo(wid), qpt, cpt) + i[wid]
       IN  IF i[wid] < workerQueries(qpt, cpt)
           THEN /\ tResults' = [tResults EXCEPT ![t].Results[idx + 1] = ScaleSample(t, idx)]
                /\ i' = [i EXCEPT ![wid] = @ + 1]
                /\ calls' = [calls EXCEPT ![wid] = @ + 1]
                /\ pc' = pc
           ELSE /\ pc' = [pc EXCEPT ![wid] = "done"]
                /\ UNCHANGED <<tResults, i, calls>>
    /\ UNCHANGED <<scaleWorkerRest, local, merges>>

\* for !stopped.Load() { ...; local = append(local, ...) }
ScaleTimedLoop(wid) ==
    /\ pc[wid] = "timed"
    /\ IF stopped
       THEN /\ pc' = [pc EXCEPT ![wid] = "merge"]
            /\ UNCHANGED <<local, calls>>
       ELSE /\ calls[wid] < ScaleMaxOps
            /\ local' = [local EXCEPT ![wid] =
                           Append(@, ScaleSample(TenantOf(wid), Len(local[wid])))]
            /\ calls' = [calls EXCEPT ![wid] = @ + 1]
            /\ pc' = pc
    /\ UNCHANGED <<scaleWorkerRest, tResults, i, merges>>

\* collectors[tIdx].mu.Lock(); results = append(results, local...); Unlock()
ScaleTimedMerge(wid) ==
    /\ pc[wid] = "merge"
    /\ tResults' = [tResults EXCEPT ![TenantOf(wid)].Results = @ \o local[wid]]
    /\ merges' = [merges EXCEPT ![wid] = @ + 1]
    /\ pc' = [pc EXCEPT ![wid] = "done"]
    /\ UNCHANGED <<scaleWorkerRest, local, i, calls>>

\* time.AfterFunc(params.Duration, func() { stopped.Store(true) })
ScaleTimerFire ==
    /\ pcMain = "scale_wait"
    /\ params.Duration > 0
    /\ ~timerFired
    /\ stopped' = TRUE
    /\ timerFired' = TRUE
    /\ flagSets' = flagSets + 1
    /\ UNCHANGED <<scaleFixed, pcMain, measured, pools, seeded, seedErr, verdict, tResults,
                   pc, i, local, calls, merges, stats, totalDuration>>

\* wg.Wait() returns
ScaleWaitOver == \A wid \in DOMAIN pc : pc[wid] \in {"idle", "done"}

\* totalDuration := time.Since(start); return computeScaleStats(...)
ScaleJoin ==
    /\ pcMain = "scale_wait"
    /\ ScaleWaitOver
    /\ \E d \in 1 .. MaxTotalDuration :
         /\ totalDuration' = d
         /\ tResults' = TenantStats(tResults, pools, d)
         /\ stats' = OverallStats(tResults, pools, d)
    /\ verdict' = Fairness(TenantP50sUpTo(tResults', pools, Len(tResults')))
    /\ pcMain' = "scale_done"
    /\ UNCHANGED <<scaleFixed, measured, pools, seeded, seedErr, pc, i, local, calls, stopped,
                   timerFired, flagSets, merges>>

NextScale ==
    \/ ScaleConnect
    \/ \E t \in 1 .. ScaleTenants : ScaleSeed(t)
    \/ ScaleRunCount
    \/ ScaleRunTimed
    \/ \E wid \in DOMAIN pc : ScaleCountStep(wid)
    \/ \E wid \in DOMAIN pc : ScaleTimedLoop(wid)
    \/ \E wid \in DOMAIN pc : ScaleTimedMerge(wid)
    \/ ScaleTimerFire
    \/ ScaleJoin

SpecScale == InitScale /\ [][NextScale]_vars

(***************************************************************************)
(* The dispatch of runMultiCount and scaleRunCount: which goroutines are    *)
(* started, with which offset and count.  SpecFanOut.                       *)
(***************************************************************************)

\* largest number of tenants, largest params.Queries and params.Concurrency
MaxFanTenants == 3

MaxFanQueries == 12

MaxFanConcurrency == 4

FanTests == {"multi", "scale", "single"}

FanParams ==
    [Queries : 0 .. MaxFanQueries, Concurrency : 0 .. MaxFanConcurrency, Duration : {0},
     Runs : {1}]

\* RunMultiTenant returns at the first connect failure: every pool is open;
\* RunScale goes on with nil pools; the single test has one pool
FanPools(test) ==
    UNION {IF test = "multi"
           THEN {[t \in 1 .. n |-> t]}
           ELSE IF test = "single"
           THEN {<<1>>}
           ELSE {ps \in [1 .. n -> 0 .. n] : \A t \in 1 .. n : ps[t] \in {0, t}}
           : n \in 1 .. MaxFanTenants}

InitFanOut ==
    /\ pcMain = "fan_input"
    /\ results = <<>>
    /\ totalDuration = 0
    /\ \E p \in FanParams :
         /\ params = p
         /\ pc = <<>>
         /\ i = <<>>
         /\ local = <<>>
         /\ tmp = <<>>
         /\ calls = <<>>
         /\ failed = <<>>
         /\ loads = <<>>
         /\ merges = <<>>
         /\ callsAtStop = <<>>
    /\ stopped = FALSE
    /\ timerFired = FALSE
    /\ mu = NoHolder
    /\ stats = BenchStats("", 0, 0)
    /\ flagSets = 0
    /\ inFlightAtStop = {}
    /\ now = 0
    /\ \E test \in FanTests :
         /\ entry = [db |-> "postgres", test |-> test]
         /\ pools \in FanPools(test)
    /\ measured = <<>>
    /\ CtlIdle
    /\ victim = 0
    /\ seeded = {}
    /\ noisePc = <<>>
    /\ stopNoise = FALSE
    /\ noiseWrites = {}
    /\ verdict = NoVerdict
    /\ tResults = <<>>
    /\ seedErr = {}
    /\ backend = <<>>
    /\ plan = {}
    /\ launchedAt = -1
    /\ isoStats = <<>>
    /\ SideIdle

\* runMultiCount: a goroutine for every tenant t and every w < concPerTenant
multiPlan(q, c, ps) ==
    LET nTenants == Len(ps)
        qpt == multiQueriesPerTenant(q, nTenants)
        cpt == concPerTenant(c, nTenants)
    IN  {[tenant |-> t, worker |-> w, offset |-> multiWorkerOffset(t, w, qpt, cpt),
          count |-> workerQueries(qpt, cpt)] :
            t \in 0 .. (nTenants - 1), w \in 0 .. (cpt - 1)}

\* scaleRunCount: the same for every tenant that has a pool
scalePlan(q, c, ps) ==
    LET nTenants == Len(ps)
        qpt == scaleQueriesPerTenant(q, nTenants)
        cpt == concPerTenant(c, nTenants)
    IN  {[tenant |-> t, worker |-> w, offset |-> scaleWorkerOffset(w, qpt, cpt),
          count |-> workerQueries(qpt, cpt)] :
            t \in {u \in 0 .. (nTenants - 1) : HasPool(ps, u + 1)}, w \in 0 .. (cpt - 1)}

\* RunQueries: a goroutine for every w < params.Concurrency, with
\* queriesPerWorker := params.Queries / params.Concurrency and
\* offset := workerID * queriesPerWorker
singlePlan(q, c) ==
    {[tenant |-> 0, worker |-> w, offset |-> w * (q \div c), count |-> q \div c] :
        w \in 0 .. (c - 1)}

\* the two nested loops with the go statement (one loop in RunQueries, which
\* does not get this far when params.Concurrency is zero)
FanDispatch ==
    /\ pcMain = "fan_input"
    /\ entry.test = "single" => params.Concurrency # 0
    /\ plan' = IF entry.test = "multi"
               THEN multiPlan(params.Queries, params.Concurrency, pools)
               ELSE IF entry.test = "single"
               THEN singlePlan(params.Queries, params.Concurrency)
               ELSE scalePlan(params.Queries, params.Concurrency, pools)
    /\ pcMain' = "fan_dispatched"
    /\ UNCHANGED <<workVars, sideVars, now, entryVars, ctlVars, victim, pools, seeded, noisePc,
                   stopNoise, noiseWrites, verdict, tResults, seedErr, backend, launchedAt,
                   isoStats>>

\* the array a worker writes: the one results array of RunQueries and
\* runMultiCount (0), or tResults[tIdx].Results of scaleRunCount
ArrayOf(a) == IF entry.test = "scale" THEN a.tenant + 1 ELSE 0

\* make([]bench.QueryResult, params.Queries), or
\* make([]bench.QueryResult, queriesPerTenant) for each tenant
ArraySize ==
    IF entry.test = "scale" THEN scaleQueriesPerTenant(params.Queries, Len(pools))
    ELSE params.Queries

\* a worker's loop: for i := 0; i < count; i++ { idx := offset + i; ...
\* results[idx] = QueryResult{...} }, from its first write to its last
FanWorkerRun(a) ==
    /\ pcMain = "fan_dispatched"
    /\ a \in plan
    /\ a.count > 0
    /\ \A r \in written : ~(r.tenant = a.tenant /\ r.worker = a.worker)
    /\ written' = written \cup
         {[array |-> ArrayOf(a), slot |-> a.offset + k, tenant |-> a.tenant,
           worker |-> a.worker, iter |-> k] : k \in 0 .. (a.count - 1)}
    /\ UNCHANGED <<workVars, warmVars, seedVars, closes, summary, now, entryVars, ctlVars,
                   pcMain, orchVars>>

NextFanOut ==
    \/ FanDispatch
    \/ \E a \in plan : FanWorkerRun(a)

SpecFanOut == InitFanOut /\ [][NextFanOut]_vars

(***************************************************************************)
(* The fairness analysis of computeScaleStats applied to per-tenant stats.  *)
(* SpecFair.                                                                *)
(***************************************************************************)

\* the number of tenants handed to the analysis
FairTenants == 3

\* p50 latencies in nanoseconds: below a microsecond, whole microseconds,
\* and a pair just inside a ratio of three
TenantP50Values == {0, 300, 900, 1000, 3000, 5000, 1000900, 3002000}

\* a tenant without a pool keeps the zero stats: ComputeStats is not called
FairInputs ==
    {tr \in [1 .. FairTenants -> [Name : 1 .. FairTenants, p50 : TenantP50Values,
                                  pool : BOOLEAN]] :
        \A t \in 1 .. FairTenants : tr[t].Name = t /\ (~tr[t].pool => tr[t].p50 = 0)}

InitFair ==
    /\ pcMain = "fair_input"
    /\ results = <<>>
    /\ totalDuration = 0
    /\ Idle(NoRun)
    /\ now = 0
    /\ EntryIdle
    /\ CtlIdle
    /\ victim = 0
    /\ seeded = {}
    /\ noisePc = <<>>
    /\ stopNoise = FALSE
    /\ noiseWrites = {}
    /\ verdict = NoVerdict
    /\ \E inp \in FairInputs :
         /\ pools = [t \in 1 .. FairTenants |-> IF inp[t].pool THEN t ELSE 0]
         /\ tResults = [t \in 1 .. FairTenants |->
                          [Name |-> t, Results |-> <<>>,
                           Stats |-> [BenchStats("", 0, 0) EXCEPT !.LatencyP50 = inp[t].p50]]]
    /\ seedErr = {}
    /\ backend = <<>>
    /\ plan = {}
    /\ launchedAt = -1
    /\ isoStats = <<>>
    /\ SideIdle

\* the fairness analysis at the end of computeScaleStats
FairCall ==
    /\ pcMain = "fair_input"
    /\ verdict' = Fairness(TenantP50sUpTo(tResults, pools, Len(tResults)))
    /\ pcMain' = "fair_done"
    /\ UNCHANGED <<workVars, sideVars, now, entryVars, ctlVars, victim, pools, seeded, noisePc,
                   stopNoise, noiseWrites, scaleVars, launchedAt, isoStats>>

NextFair == FairCall

SpecFair == InitFair /\ [][NextFair]_vars

(***************************************************************************)
(* A whole call of RunQueries or RunQueriesTimed: the warm-up loop, then    *)
(* the run; params.Concurrency may be zero.  SpecRun.                       *)
(***************************************************************************)

\* largest params.Warmup
MaxWarmup == 1

RunParams ==
    [Queries : {MaxQueries}, Concurrency : {0, 1, MaxConcurrency}, Duration : {0, 1}]

InitRun ==
    /\ pcMain = "warmup"
    /\ results = <<>>
    /\ totalDuration = 0
    /\ \E p \in RunParams : Idle(p)
    /\ now = 0
    /\ EntryIdle
    /\ CtlIdle
    /\ OrchIdle
    /\ warmup \in {0, MaxWarmup}
    /\ warmupIssued = 0
    /\ warmupFailed = 0
    /\ SeedIdle
    /\ written = {}
    /\ closes = 0
    /\ summary = <<>>

warmRest == <<workVars, now, entryVars, ctlVars, orchVars, seedVars, written, closes, summary>>

\* for i := 0; i < params.Warmup; i++ { pool.QueryRow(...).Scan(...) }:
\* the value and the error of Scan are dropped
WarmupCall ==
    /\ pcMain = "warmup"
    /\ warmupIssued < warmup
    /\ warmupIssued' = warmupIssued + 1
    /\ \E err \in BOOLEAN : warmupFailed' = warmupFailed + (IF err THEN 1 ELSE 0)
    /\ UNCHANGED <<warmRest, pcMain, warmup>>

\* a plausible slip: the run begins while warm-up calls are outstanding
WarmupFinished_early == TRUE

\* the loop condition i < params.Warmup is false
WarmupFinished == warmupIssued >= warmup

\* the warm-up loop is left; results and start come next
WarmupOver ==
    /\ pcMain = "warmup"
    /\ WarmupFinished
    /\ pcMain' = "start"
    /\ UNCHANGED <<warmRest, warmVars>>

\* queriesPerWorker := params.Queries / params.Concurrency with a divisor of
\* zero: the runtime panics (integer divide by zero) before any goroutine starts
DispatchPanic ==
    /\ pcMain = "start"
    /\ ~IsTimed
    /\ params.Concurrency = 0
    /\ results' = [k \in 1 .. params.Queries |-> ZeroResult]
    /\ pcMain' = "panic"
    /\ UNCHANGED aux
    /\ UNCHANGED <<params, pc, i, local, tmp, stopped, timerFired, mu, totalDuration,
                   stats, calls, failed, loads, flagSets, merges, callsAtStop,
                   inFlightAtStop>>

NextRun ==
    \/ WarmupCall
    \/ WarmupOver
    \/ DispatchPanic
    \/ Next

SpecRun == InitRun /\ [][NextRun]_vars

(***************************************************************************)
(* SeedData: the pgx version and the older database/sql version.  accounts *)
(* is the number of rows of the accounts table; seedLog keeps, per call,   *)
(* the row count asked for, the rows before and after, and whether the     *)
(* call returned nil.  SpecSeed.                                           *)
(***************************************************************************)

\* largest rows argument
MaxRows == 3

\* calls of SeedData in one behaviour
MaxSeeds == 3

\* batchSize := 500, scaled down to the row counts of the model
batchSize == 2

SeedImpls == {"pgx", "sql"}

InitSeed ==
    /\ pcMain = "seed_idle"
    /\ results = <<>>
    /\ totalDuration = 0
    /\ Idle(NoRun)
    /\ now = 0
    /\ EntryIdle
    /\ CtlIdle
    /\ OrchIdle
    /\ WarmIdle
    /\ accounts \in 0 .. MaxRows
    /\ seed = NoSeed
    /\ seedLog = <<>>
    /\ written = {}
    /\ closes = 0
    /\ summary = <<>>

seedRest == <<workVars, now, entryVars, ctlVars, orchVars, warmVars, written, closes, summary>>

\* SeedData(pool, rows) is called
SeedCall ==
    /\ pcMain = "seed_idle"
    /\ Len(seedLog) < MaxSeeds
    /\ \E impl \in SeedImpls, rows \in 0 .. MaxRows :
         seed' = [pc |-> "check", impl |-> impl, rows |-> rows, count |-> 0, i |-> 0,
                  before |-> accounts]
    /\ pcMain' = "seed_running"
    /\ UNCHANGED <<seedRest, accounts, seedLog>>

\* the call returns, with nil when ok
SeedReturns(ok, rowsNow) ==
    /\ seedLog' = Append(seedLog, [impl |-> seed.impl, rows |-> seed.rows,
                                   before |-> seed.before, after |-> rowsNow, ok |-> ok])
    /\ seed' = NoSeed
    /\ pcMain' = "seed_idle"

\* a plausible slip: a table holding exactly rows rows is seeded again
AlreadySeeded_strict(count, rows) == count > rows

\* if count >= rows { return nil }
AlreadySeeded(count, rows) == count >= rows

\* SELECT COUNT(*) FROM accounts.  pgx: an error is returned; database/sql:
\* the first check is skipped when the query fails
SeedCheck ==
    /\ seed.pc = "check"
    /\ \E ok \in BOOLEAN :
         IF ok
         THEN IF AlreadySeeded(accounts, seed.rows)
              THEN SeedReturns(TRUE, accounts)
              ELSE /\ seed' = [seed EXCEPT !.count = accounts,
                                           !.pc = IF seed.impl = "pgx" THEN "insert"
                                                  ELSE "create"]
                   /\ UNCHANGED <<pcMain, seedLog>>
         ELSE IF seed.impl = "pgx"
              THEN SeedReturns(FALSE, accounts)
              ELSE /\ seed' = [seed EXCEPT !.pc = "create"]
                   /\ UNCHANGED <<pcMain, seedLog>>
    /\ UNCHANGED <<seedRest, accounts>>

\* INSERT INTO accounts (name, balance) SELECT ... FROM generate_series(1, rows)
\* ON CONFLICT DO NOTHING: one statement; it adds a row for every generated
\* name that meets no conflict, between rows - count and rows of them, or
\* fails and adds none
SeedInsert ==
    /\ seed.pc = "insert"
    /\ \E ok \in BOOLEAN :
         IF ok
         THEN \E n \in (seed.rows - seed.count) .. seed.rows :
                /\ accounts' = accounts + n
                /\ SeedReturns(TRUE, accounts + n)
         ELSE /\ accounts' = accounts
              /\ SeedReturns(FALSE, accounts)
    /\ UNCHANGED seedRest

\* CREATE TABLE IF NOT EXISTS accounts (...); an error is returned
SeedCreate ==
    /\ seed.pc = "create"
    /\ \E ok \in BOOLEAN :
         IF ok
         THEN seed' = [seed EXCEPT !.pc = "recheck"] /\ UNCHANGED <<pcMain, seedLog>>
         ELSE SeedReturns(FALSE, accounts)
    /\ UNCHANGED <<seedRest, accounts>>

\* the second SELECT COUNT(*): an error is returned; if count >= rows { return nil }
SeedRecheck ==
    /\ seed.pc = "recheck"
    /\ \E ok \in BOOLEAN :
         IF ~ok THEN SeedReturns(FALSE, accounts)
         ELSE IF AlreadySeeded(accounts, seed.rows) THEN SeedReturns(TRUE, accounts)
         ELSE /\ seed' = [seed EXCEPT !.count = accounts, !.pc = "batch", !.i = 0]
              /\ UNCHANGED <<pcMain, seedLog>>
    /\ UNCHANGED <<seedRest, accounts>>

\* end := i + batchSize; if end > rows { end = rows }
BatchEnd(i0, rows) == IF i0 + batchSize > rows THEN rows ELSE i0 + batchSize

\* for i := 0; i < rows; i += batchSize { INSERT ... VALUES (?,?),... }: one
\* batch is inserted, or its INSERT fails and the error is returned with the
\* earlier batches left in the table
SeedBatch ==
    /\ seed.pc = "batch"
    /\ seed.i < seed.rows
    /\ \E ok \in BOOLEAN :
         IF ok
         THEN /\ accounts' = accounts + (BatchEnd(seed.i, seed.rows) - seed.i)
              /\ seed' = [seed EXCEPT !.i = seed.i + batchSize]
              /\ UNCHANGED <<pcMain, seedLog>>
         ELSE /\ accounts' = accounts
              /\ SeedReturns(FALSE, accounts)
    /\ UNCHANGED seedRest

\* the loop is over: return nil
SeedLoopEnd ==
    /\ seed.pc = "batch"
    /\ seed.i >= seed.rows
    /\ SeedReturns(TRUE, accounts)
    /\ UNCHANGED <<seedRest, accounts>>

NextSeed ==
    \/ SeedCall
    \/ SeedCheck
    \/ SeedInsert
    \/ SeedCreate
    \/ SeedRecheck
    \/ SeedBatch
    \/ SeedLoopEnd

SpecSeed == InitSeed /\ [][NextSeed]_vars

(***************************************************************************)
(* Properties.                                                             *)
(***************************************************************************)
StatsDone == pcMain = "stats_done"

RunDone == pcMain = "done"

\* indices of the samples without an error, taken from the input itself
Succ == {k \in 1 .. Len(results) : ~results[k].Err}

Errd == {k \in 1 .. Len(results) : results[k].Err}

\* C1: after a count-bounded run Total is concurrency * floor(operationCount /
\* concurrency), one sample per operation issued, and the successful samples
\* are the issued operations that did not fail (the dropped remainder adds
\* nothing).
C1_CountTotalIsIssued ==
    (RunDone /\ ~IsTimed) =>
        /\ stats.Total = params.Concurrency * (params.Queries \div params.Concurrency)
        /\ stats.Total = SumOver(calls, Workers)
        /\ stats.Total - stats.Errors = SumOver(calls, Workers) - SumOver(failed, Workers)

\* C2: ComputeStats returns Total = number of input samples, errored ones
\* included, and Total = Errors + number of samples without an error.
C2_TotalIsErrorsPlusSuccesses ==
    StatsDone =>
        /\ stats.Total = Len(results)
        /\ stats.Total = stats.Errors + Cardinality(Succ)

C2_Witness ==
    /\ StatsDone
    /\ stats.Errors >= 2
    /\ stats.Total >= stats.Errors + 2
    /\ results[1].Err

\* the least integer c with c >= p/100 * n
CeilOf(p, n) == CHOOSE c \in 0 .. n : 100 * c >= p * n /\ (c = 0 \/ 100 * (c - 1) < p * n)

\* nearest-rank index: ceil(p/100 * n) - 1 clamped to [0, n-1]
NearestRank(p, n) ==
    LET r == CeilOf(p, n) - 1
    IN  IF r < 0 THEN 0 ELSE IF r > n - 1 THEN n - 1 ELSE r

\* v is the element at 0-based index idx of the successful latencies in
\* ascending order
IsAtSortedIndex(v, idx) ==
    /\ Cardinality({k \in Succ : results[k].Duration < v}) <= idx
    /\ idx < Cardinality({k \in Succ : results[k].Duration <= v})

IsMinOfSucc(v) ==
    /\ \E k \in Succ : results[k].Duration = v
    /\ \A k \in Succ : v <= results[k].Duration

IsMaxOfSucc(v) ==
    /\ \E k \in Succ : results[k].Duration = v
    /\ \A k \in Succ : results[k].Duration <= v

\* C3: with n >= 1 successful samples every reported percentile p is the
\* element at index ceil(p/100 * n) - 1, clamped to [0, n-1], of the successful
\* latencies sorted ascending, and no latency field takes a value from an
\* errored sample.
C3_NearestRankOverSuccesses ==
    (StatsDone /\ Succ # {}) =>
        LET n == Cardinality(Succ) IN
        /\ IsAtSortedIndex(stats.LatencyP50, NearestRank(50, n))
        /\ IsAtSortedIndex(stats.LatencyP75, NearestRank(75, n))
        /\ IsAtSortedIndex(stats.LatencyP90, NearestRank(90, n))
        /\ IsAtSortedIndex(stats.LatencyP95, NearestRank(95, n))
        /\ IsAtSortedIndex(stats.LatencyP99, NearestRank(99, n))
        /\ IsMinOfSucc(stats.LatencyMin)
        /\ IsMaxOfSucc(stats.LatencyMax)
        /\ stats.LatencyAvg * n <= SumSeq(SuccessDurations(results))
        /\ SumSeq(SuccessDurations(results)) < (stats.LatencyAvg + 1) * n

C3_Witness ==
    /\ StatsDone
    /\ Cardinality(Succ) = 3
    /\ stats.LatencyMin < stats.LatencyP50
    /\ stats.LatencyP50 < stats.LatencyP75
    /\ \E k \in Errd : results[k].Duration > stats.LatencyMax

\* C4: with at least one successful sample,
\* Min <= P50 <= P75 <= P90 <= P95 <= P99 <= Max.
C4_PercentilesMonotone ==
    (StatsDone /\ Succ # {}) =>
        /\ stats.LatencyMin <= stats.LatencyP50
        /\ stats.LatencyP50 <= stats.LatencyP75
        /\ stats.LatencyP75 <= stats.LatencyP90
        /\ stats.LatencyP90 <= stats.LatencyP95
        /\ stats.LatencyP95 <= stats.LatencyP99
        /\ stats.LatencyP99 <= stats.LatencyMax

C4_Witness ==
    /\ StatsDone
    /\ Cardinality(Succ) >= 3
    /\ stats.LatencyMin < stats.LatencyP50
    /\ stats.LatencyP50 < stats.LatencyP99
    /\ \E k \in Succ : k < Len(results) /\ ~results[k + 1].Err
                       /\ results[k].Duration > results[k + 1].Duration

\* C5: called with totalDuration = 0 and at least one successful sample,
\* ComputeStats divides by nothing that is zero and returns QPS = 0.
C5_ZeroDurationZeroQPS ==
    (StatsDone /\ totalDuration = 0 /\ Succ # {}) =>
        /\ stats.QPS.den # 0
        /\ IsZeroFloat(stats.QPS)

\* C6: with no successful sample (an empty list, or every sample errored)
\* ComputeStats returns Total = number of samples, Errors = number of errored
\* samples, and zero in every latency field and in QPS.
C6_NoSuccessAllZero ==
    (StatsDone /\ Succ = {}) =>
        /\ stats.Total = Len(results)
        /\ stats.Errors = Cardinality(Errd)
        /\ IsZeroFloat(stats.QPS)
        /\ stats.LatencyAvg = 0 /\ stats.LatencyMin = 0 /\ stats.LatencyMax = 0
        /\ stats.LatencyP50 = 0 /\ stats.LatencyP75 = 0 /\ stats.LatencyP90 = 0
        /\ stats.LatencyP95 = 0 /\ stats.LatencyP99 = 0

C6_Witness ==
    /\ StatsDone
    /\ Succ = {}
    /\ Len(results) >= 2
    /\ totalDuration = 0
    /\ \E k \in Errd : results[k].Duration > 0

\* samples worker w has recorded so far, and those among them carrying an error
Recorded(w) ==
    IF IsTimed THEN Len(local[w])
    ELSE Cardinality({k \in 1 .. Len(results) :
                        /\ offset(w) < k /\ k <= offset(w) + queriesPerWorker
                        /\ results[k].At # 0})

RecordedErrors(w) ==
    IF IsTimed THEN Cardinality({k \in 1 .. Len(local[w]) : local[w][k].Err})
    ELSE Cardinality({k \in 1 .. Len(results) :
                        /\ offset(w) < k /\ k <= offset(w) + queriesPerWorker
                        /\ results[k].At # 0 /\ results[k].Err})

InFlight(w) == IF pc[w] = "call" THEN 1 ELSE 0

LeftLoop(w) == pc[w] \in {"lock", "append", "done"}

\* C7: in the measured phase of either mode a failed backend call is recorded
\* as one sample carrying the error, the worker goes on with its loop (a
\* count-mode worker still issues its whole share, a timed worker leaves its
\* loop only on the stop flag), and nothing is re-issued: every worker has
\* made exactly as many backend calls as it has recorded samples.
C7_FailuresRecordedNeverRetried ==
    \A w \in Workers :
        /\ calls[w] = Recorded(w) + InFlight(w)
        /\ RecordedErrors(w) = failed[w]
        /\ (~IsTimed /\ pc[w] = "done") => calls[w] = queriesPerWorker
        /\ (IsTimed /\ LeftLoop(w)) => stopped

C7_Witness ==
    /\ IsTimed
    /\ RunDone
    /\ stats.Errors >= 1
    /\ \E w \in Workers : Len(local[w]) >= 2 /\ local[w][1].Err /\ calls[w] = Len(local[w])

\* the bag of the elements of a sequence
BagOfSeq(s) ==
    [x \in {s[k] : k \in 1 .. Len(s)} |-> Cardinality({k \in 1 .. Len(s) : s[k] = x})]

RECURSIVE BagOfLocals(_)
BagOfLocals(S) ==
    IF S = {} THEN EmptyBag
    ELSE LET x == CHOOSE y \in S : TRUE IN BagOfSeq(local[x]) (+) BagOfLocals(S \ {x})

RECURSIVE TotalLocal(_)
TotalLocal(S) ==
    IF S = {} THEN 0
    ELSE LET x == CHOOSE y \in S : TRUE IN Len(local[x]) + TotalLocal(S \ {x})

\* C8: in a duration-bounded run, whatever the interleaving, once all workers
\* have joined the shared result collection holds every sample of every private
\* buffer exactly once (as many samples as the private buffers hold together),
\* and every worker has merged exactly once, as its last step.
C8_MergeLosesNothing ==
    IsTimed =>
        /\ \A w \in Workers : merges[w] = (IF pc[w] = "done" THEN 1 ELSE 0)
        /\ WaitOver =>
             /\ Len(results) = TotalLocal(Workers)
             /\ BagOfSeq(results) = BagOfLocals(Workers)

C8_Witness ==
    /\ IsTimed
    /\ RunDone
    /\ \E v, w \in Workers :
         /\ v # w
         /\ Len(local[v]) >= 1
         /\ Len(local[w]) >= 1
         /\ local[v][1].Err # local[w][1].Err
    /\ Len(results) = 3

\* C9 (state part): the stop flag is set at most once and only by the timer;
\* in a timed run every operation a worker issues has its own preceding read
\* of the flag; a worker that left its loop has recorded a sample for every
\* operation it started.
C9_FlagInvariant ==
    /\ flagSets <= 1
    /\ stopped <=> (flagSets = 1)
    /\ stopped => timerFired
    /\ IsTimed =>
         \A w \in Workers :
            /\ loads[w] = calls[w] + (IF pc[w] = "issue" \/ LeftLoop(w) THEN 1 ELSE 0)
            /\ LeftLoop(w) => Len(local[w]) = calls[w]

\* C9 (step part): the flag never goes back to false, it changes only in the
\* step in which the timer runs, and a started operation always ends with its
\* sample appended, also when the flag is already set.
C9_FlagStep ==
    /\ stopped => stopped'
    /\ (stopped' # stopped) => (~timerFired /\ timerFired')
    /\ \A w \in Workers :
         (IsTimed /\ pc[w] = "call" /\ pc'[w] # "call") =>
             Len(local'[w]) = Len(local[w]) + 1

\* C9: in a duration-bounded run the stop flag goes from false to true exactly
\* once, set by the timer, and is never reset; every worker reads the flag
\* before each operation it issues; a started operation always completes and
\* its sample is recorded, even when the flag is set while it is in flight.
C9_StopFlagOneShot == []C9_FlagInvariant /\ [][C9_FlagStep]_vars

C9_Witness ==
    /\ IsTimed
    /\ RunDone
    /\ flagSets = 1
    /\ \E w \in inFlightAtStop :
         /\ callsAtStop[w] >= 2
         /\ Len(local[w]) = callsAtStop[w]
         /\ Len(results) >= Len(local[w])

\* C10 (state part): once the wall-clock duration has been taken every worker
\* has finished: a count-mode worker has issued its whole share, a timed
\* worker has merged its private buffer.
C10_JoinedInvariant ==
    pcMain \in {"joined", "done"} =>
        \A w \in Workers :
            /\ pc[w] = "done"
            /\ ~IsTimed => (i[w] = queriesPerWorker /\ calls[w] = queriesPerWorker)
            /\ IsTimed => merges[w] = 1

\* C10 (step part): after the duration has been taken no sample is recorded.
C10_JoinedStep ==
    pcMain \in {"joined", "done"} => (results' = results /\ local' = local)

\* C10: in both modes the run's wall-clock duration is taken and the statistics
\* are computed only after every worker has finished, and no worker records a
\* sample after the duration has been taken.
C10_DurationAfterJoin == []C10_JoinedInvariant /\ [][C10_JoinedStep]_vars

C10_Witness ==
    /\ RunDone
    /\ ~IsTimed
    /\ params.Concurrency >= 2
    /\ queriesPerWorker >= 2
    /\ stats.Total = params.Queries
    /\ stats.Errors >= 1

MultiDone == pcMain = "rm_done"

\* the p50 latencies of the passes, in pass order
PassP50s == [j \in 1 .. Len(passes) |-> passes[j].LatencyP50]

\* passes whose p50 is below v, and passes whose p50 is at most v
PassesBelow(v) == Cardinality({j \in 1 .. Len(passes) : PassP50s[j] < v})

PassesUpTo(v) == Cardinality({j \in 1 .. Len(passes) : PassP50s[j] <= v})

\* r with its label blanked: what is left to compare of a relabelled run
Unlabelled(r) == [r EXCEPT !.Label = ""]

IsAPass(r) == \E j \in 1 .. Len(passes) : Unlabelled(passes[j]) = Unlabelled(r)

\* C13: for runs = n > 1, runFn is called with 0, 1, ..., n-1 in that order and
\* n times in all; a cooldown follows every pass but the last (n-1 cooldowns
\* of 3 time units each); a pass starts only when every earlier pass has
\* returned and every earlier cooldown is over.
C13_PassInvariant ==
    runs > 1 =>
        /\ \A j \in 1 .. Len(started) : started[j] = j - 1
        /\ Len(started) <= runs
        /\ cooldowns <= runs - 1
        /\ now = Cooldown * cooldowns
        /\ pcMain \in {"rm_median", "rm_done"} =>
              /\ Len(started) = runs
              /\ Len(passes) = runs
              /\ cooldowns = runs - 1

C13_PassStep ==
    runs > 1 =>
        /\ started' # started =>
              /\ started' = Append(started, Len(started))
              /\ Len(passes) = Len(started)
              /\ cooldowns = Len(started)
        /\ cooldowns' # cooldowns =>
              /\ cooldowns' = cooldowns + 1
              /\ Len(passes) = cooldowns'
              /\ Len(started) = Len(passes)
              /\ Len(passes) < runs

C13_SequentialPasses == []C13_PassInvariant /\ [][C13_PassStep]_vars

C13_Witness ==
    /\ MultiDone
    /\ runs > 2
    /\ Len(started) = runs
    /\ started[runs] = runs - 1
    /\ cooldowns = runs - 1

\* C14: for runs <= 1 (1, 0 and negative values) runFn is called once, with
\* index 0, and what it returns is returned as it is: the loop, the cooldown,
\* SteadyState, MedianStats and the relabelling are never reached.
C14_SingleRunDirect ==
    runs <= 1 =>
        /\ pcMain \in {"rm_entry", "rm_single", "rm_done"}
        /\ started = (IF pcMain = "rm_entry" THEN <<>> ELSE <<0>>)
        /\ cooldowns = 0
        /\ now = 0
        /\ allRuns = <<>>
        /\ steady = FALSE
        /\ maxDev = FloatZero
        /\ MultiDone =>
              /\ Len(passes) = 1
              /\ ret = passes[1]

C14_Witness ==
    /\ MultiDone
    /\ runs < 0
    /\ started = <<0>>
    /\ ret = passes[1]
    /\ ret.Label = PassLabel

\* C15: for runs = n > 1 the value returned is, but for its label, the pass
\* that stands at index floor(n/2) once the passes are ordered by ascending
\* p50 (the upper median for even n): at most floor(n/2) passes have a lower
\* p50 and more than floor(n/2) have a p50 no higher.  Its label is the given
\* label marked as a median of n runs.
C15_MedianOfRuns ==
    (MultiDone /\ runs > 1) =>
        /\ BagOfSeq(allRuns) = BagOfSeq(passes)
        /\ \A a, b \in 1 .. runs : a < b => allRuns[a].LatencyP50 <= allRuns[b].LatencyP50
        /\ Unlabelled(ret) = Unlabelled(allRuns[(runs \div 2) + 1])
        /\ IsAPass(ret)
        /\ PassesBelow(ret.LatencyP50) <= runs \div 2
        /\ PassesUpTo(ret.LatencyP50) > runs \div 2
        /\ ret.Label = <<CtlLabel, " (median of ", runs, " runs)">>

C15_Witness ==
    /\ MultiDone
    /\ runs = 2
    /\ passes[1].LatencyP50 > passes[2].LatencyP50
    /\ Unlabelled(ret) = Unlabelled(passes[1])
    /\ ret.Label = MedianLabel(CtlLabel, runs)

\* C16: MedianStats on one run returns that run as it is; on an odd number of
\* runs it returns one of them whose p50 is the median of the p50 values (at
\* most half of the others are below it and at most half above it), ties on
\* p50 included.
C16_MedianStatsOdd ==
    (pcMain = "median_done") =>
        /\ Len(passes) = 1 => (ret = passes[1] /\ allRuns = passes)
        /\ Len(passes) % 2 = 1 =>
              /\ \E j \in 1 .. Len(passes) : ret = passes[j]
              /\ 2 * PassesBelow(ret.LatencyP50) < Len(passes)
              /\ 2 * (Len(passes) - PassesUpTo(ret.LatencyP50)) < Len(passes)

C16_Witness ==
    /\ pcMain = "median_done"
    /\ Len(passes) = 3
    /\ passes[1].LatencyP50 = passes[3].LatencyP50
    /\ passes[2].LatencyP50 < passes[1].LatencyP50
    /\ ret.LatencyP50 = passes[1].LatencyP50

\* the QPS of the runs as whole numbers (the finite QPS of the model)
WholeQPS == [j \in 1 .. Len(allRuns) |-> allRuns[j].QPS.num]

AllWholeQPS == \A j \in 1 .. Len(allRuns) : allRuns[j].QPS.den = 1

\* n * |QPS_j - mean|, with n * mean = the sum of the QPS
ScaledDev(j) == Abs(Len(allRuns) * WholeQPS[j] - SumSeq(WholeQPS))

\* C17: for n >= 2 runs of finite QPS with a positive mean, the deviation
\* returned is the largest |QPS - mean| / mean of a run, and steady is true
\* exactly when it is at most the tolerance 0.05, equality included; three
\* runs of which one has twice the QPS of the two others give a deviation
\* above 0.05 and steady = false.
C17_SteadyIffWithinTolerance ==
    (pcMain = "steady_done" /\ Len(allRuns) >= 2 /\ AllWholeQPS /\ SumSeq(WholeQPS) > 0) =>
        LET sum == SumSeq(WholeQPS)
            n == Len(allRuns)
        IN /\ maxDev.den > 0
           /\ \A j \in 1 .. n : ScaledDev(j) * maxDev.den <= maxDev.num * sum
           /\ \E j \in 1 .. n : ScaledDev(j) * maxDev.den = maxDev.num * sum
           /\ steady <=> \A j \in 1 .. n : ScaledDev(j) * Tolerance.den <= sum * Tolerance.num
           /\ (/\ n = 3
               /\ \E a, b, c \in 1 .. n :
                    /\ {a, b, c} = 1 .. n
                    /\ WholeQPS[a] = WholeQPS[b]
                    /\ WholeQPS[c] = 2 * WholeQPS[a])
              => (~steady /\ maxDev.num * Tolerance.den > maxDev.den * Tolerance.num)

C17_Witness ==
    /\ pcMain = "steady_done"
    /\ Len(allRuns) = 3
    /\ AllWholeQPS
    /\ WholeQPS[1] > 0
    /\ WholeQPS[2] = 2 * WholeQPS[1]
    /\ WholeQPS[3] = WholeQPS[1]
    /\ ~steady
    /\ 2 * maxDev.num = maxDev.den

\* C18: on a run set whose runs all have the same QPS, whatever it is (0 for
\* runs without a successful operation included), SteadyState returns
\* deviation 0 and steady = true.
C18_EqualQPSSteady ==
    (/\ pcMain = "steady_done"
     /\ \A j, k \in 1 .. Len(allRuns) : FloatEq(allRuns[j].QPS, allRuns[k].QPS))
    => (steady /\ IsZeroFloat(maxDev))

\* C19: for runs = n > 1 the steady-state check changes nothing but what is
\* printed: steady or not, exactly n passes are made, none is made twice or
\* dropped, and the value returned is the pass at the median rank of all n
\* passes, as for a steady set.
C19_AdvisoryInvariant ==
    runs > 1 =>
        /\ Len(started) <= runs
        /\ pcMain \in {"rm_median", "rm_done"} =>
              /\ Len(started) = runs
              /\ Len(passes) = runs
        /\ MultiDone =>
              /\ BagOfSeq(allRuns) = BagOfSeq(passes)
              /\ \E j \in 1 .. Len(passes) :
                    /\ Unlabelled(ret) = Unlabelled(passes[j])
                    /\ PassesBelow(PassP50s[j]) <= runs \div 2
                    /\ PassesUpTo(PassP50s[j]) > runs \div 2

C19_AdvisoryStep ==
    runs > 1 =>
        /\ Len(started') >= Len(started)
        /\ Len(passes') >= Len(passes)
        /\ SubSeq(passes', 1, Len(passes)) = passes
        /\ (steady' # steady \/ maxDev' # maxDev) =>
              /\ pcMain = "rm_loop"
              /\ pcMain' = "rm_median"
              /\ UNCHANGED <<passIdx, allRuns, ret, started, cooldowns, passes>>
        /\ pcMain = "rm_median" => pcMain' \in {"rm_median", "rm_done"}

C19_SteadyCheckAdvisory == []C19_AdvisoryInvariant /\ [][C19_AdvisoryStep]_vars

C19_Witness ==
    /\ MultiDone
    /\ runs > 1
    /\ ~steady
    /\ FloatGt(maxDev, Tolerance)
    /\ Len(started) = runs
    /\ IsAPass(ret)

(***************************************************************************)
(* Properties of the entry points.                                         *)
(***************************************************************************)
\* C12: at every entry point, every measurement is duration-bounded when
\* params.Duration > 0 (params.Queries plays no part) and count-bounded when
\* params.Duration = 0.
C12_DurationSelectsMode ==
    \A k \in 1 .. Len(measured) :
        measured[k].mode = (IF params.Duration > 0 THEN "timed" ELSE "count")

\* C20: at every entry point, when params.Runs > 1 every measurement is made
\* by the multi-run controller, with params.Runs passes.
C20_RunsEngageController ==
    params.Runs > 1 =>
        \A k \in 1 .. Len(measured) :
            measured[k].controller /\ measured[k].passes = params.Runs

(***************************************************************************)
(* Properties of the isolation test.                                       *)
(***************************************************************************)

BaselineUnfinished == Len(isoStats) = 0

UnderNoise == Len(measured) = 2 /\ Len(isoStats) = 1

NoiseRunning(w) == noisePc[w] \in {"select", "exec"}

\* C21: the baseline measurement is over before any noise worker is started;
\* while the measurement under noise is in progress (its passes and its
\* cooldown pauses included) every noise worker has been started, the ramp-up
\* pause has elapsed since the last one was, no worker has exited and the
\* stop signal has not been given; the stop signal is given only after the
\* measurement under noise has returned
C21_IsolationOrder ==
    /\ BaselineUnfinished => \A w \in NoiseIds : noisePc[w] = "idle"
    /\ UnderNoise =>
         /\ \A w \in NoiseIds : NoiseRunning(w)
         /\ launchedAt >= 0
         /\ now >= launchedAt + RampUp
         /\ ~stopNoise
    /\ stopNoise => Len(isoStats) = 2

\* the third pass of a repeated measurement under noise is running, a
\* cooldown pause has been made in it, and a worker is inside a write
C21_Witness ==
    /\ UnderNoise
    /\ entry.db = "mysql"
    /\ runs = 3
    /\ passIdx = 2
    /\ pcMain = "iso_running"
    /\ cooldowns >= 4
    /\ \E w \in NoiseIds : noisePc[w] = "exec"
    /\ \E w \in NoiseIds : noisePc[w] = "select"

\* C22: when the comparison of the two measurements is reported, every noise
\* worker has exited
C22_ReportAfterWorkersExit ==
    (pcMain = "iso_reported" \/ verdict # NoVerdict) =>
        \A w \in NoiseIds : noisePc[w] = "done"

\* the comparison has been reported after workers wrote to their tenants
C22_Witness ==
    /\ pcMain = "iso_reported"
    /\ verdict.class = "isolated"
    /\ noiseWrites = {noisy[k] : k \in 1 .. MaxNoisy}
    /\ stopNoise

\* C23: once the pools are open, the victim's database is not one of the
\* noisy tenants' databases, and no noise write is ever issued against the
\* database that is measured
C23_VictimNotNoisy ==
    /\ SetupComplete => \A k \in 2 .. Len(pools) : pools[k] # pools[1]
    /\ victim \notin noiseWrites

(***************************************************************************)
(* Properties of the isolation verdict.                                    *)
(***************************************************************************)

ImpactDone == pcMain = "impact_done"

BaselineP50 == isoStats[1].LatencyP50

NoiseP50 == isoStats[2].LatencyP50

ImpactClasses == {"isolated", "moderate impact", "noisy neighbor detected"}

\* C24: with a baseline p50 above zero the impact is (noise p50 - baseline
\* p50) / baseline p50 as a percentage; the verdict is "isolated" exactly
\* when it is below 20, "moderate impact" exactly when it is at least 20 and
\* below 50, "noisy neighbor detected" otherwise; it is always one of the three
C24_ImpactClasses ==
    ImpactDone =>
        /\ verdict.class \in ImpactClasses
        /\ BaselineP50 > 0 =>
             LET pct100 == (NoiseP50 - BaselineP50) * 100
             IN /\ FloatEq(verdict.value, FloatDiv(pct100, BaselineP50))
                /\ verdict.class = "isolated" <=> pct100 < 20 * BaselineP50
                /\ verdict.class = "moderate impact" <=>
                     (pct100 >= 20 * BaselineP50 /\ pct100 < 50 * BaselineP50)
                /\ verdict.class = "noisy neighbor detected" <=>
                     pct100 >= 50 * BaselineP50

\* an impact of exactly 20 per cent: the first of the moderate class
C24_Witness ==
    /\ ImpactDone
    /\ BaselineP50 = 5
    /\ NoiseP50 = 6
    /\ verdict.class = "moderate impact"

\* the noise p50 is 1.6 times a baseline p50 above zero
SixtyPercentCase == ImpactDone /\ BaselineP50 > 0 /\ 10 * NoiseP50 = 16 * BaselineP50

\* C25 as stated: a noise p50 of 1.6 times the baseline p50 is an impact of
\* +60 per cent and is classified "moderate impact"
C25_SixtyIsModerate ==
    SixtyPercentCase =>
        /\ FloatEq(verdict.value, FloatDiv(60, 1))
        /\ verdict.class = "moderate impact"

\* C25 amended: a noise p50 of 1.6 times the baseline p50 is an impact of
\* +60 per cent and is classified "noisy neighbor detected"
C25_SixtyIsNoisy ==
    SixtyPercentCase =>
        /\ FloatEq(verdict.value, FloatDiv(60, 1))
        /\ verdict.class = "noisy neighbor detected"

C25_Witness ==
    /\ SixtyPercentCase
    /\ BaselineP50 = 5
    /\ NoiseP50 = 8
    /\ verdict.class = "noisy neighbor detected"

(***************************************************************************)
(* Properties of the scale test.                                           *)
(***************************************************************************)

\* a Connect or a SeedData call of the set-up has returned an error
ScaleSetupFailed == (\E t \in 1 .. Len(pools) : ~HasPool(pools, t)) \/ seedErr # {}

\* C26: a connect or seed failure during the set-up aborts the orchestration:
\* after one, no measurement is begun, no measured operation is issued and
\* no stats are produced
C26_FailFastSetup ==
    ScaleSetupFailed =>
        /\ measured = <<>>
        /\ \A wid \in DOMAIN calls : calls[wid] = 0
        /\ pcMain # "scale_done"

ScaleDone == pcMain = "scale_done"

Pooled == {t \in 1 .. ScaleTenants : HasPool(pools, t)}

WorkersOf(t) == {wid \in DOMAIN pc : TenantOf(wid) = t}

TenantTotals == [t \in 1 .. ScaleTenants |-> tResults[t].Stats.Total]

TenantErrors == [t \in 1 .. ScaleTenants |-> tResults[t].Stats.Errors]

FanDispatched == pcMain = "fan_dispatched"

FanWorkersOf(t) == {a \in plan : a.tenant = t}

FanShare == params.Queries \div Len(pools)

FanWorkerCount ==
    IF params.Concurrency \div Len(pools) >= 1 THEN params.Concurrency \div Len(pools) ELSE 1

\* C27: every tenant is driven by exactly max(1, floor(C / T)) workers and is
\* assigned the share floor(Q / T), split evenly over its workers: each worker
\* of a tenant is given floor(share / workers) operations
C27_EvenFanOut ==
    FanDispatched =>
        \A t \in 0 .. (Len(pools) - 1) :
            /\ Cardinality(FanWorkersOf(t)) = FanWorkerCount
            /\ \A a \in FanWorkersOf(t) : a.count = FanShare \div FanWorkerCount

\* the same, for the fan-out of the multi-tenant test alone
FanOutMultiOnly == entry.test = "multi" => C27_EvenFanOut

(***************************************************************************)
(* Properties of the fairness analysis.                                    *)
(***************************************************************************)

FairDone == pcMain = "fair_done"

\* the tenants that took part
TookPart == {t \in 1 .. Len(pools) : HasPool(pools, t)}

TenantP50(t) == tResults[t].Stats.LatencyP50

SlowestP50 == CHOOSE v \in {TenantP50(t) : t \in TookPart} : \A t \in TookPart : TenantP50(t) <= v

FastestP50 == CHOOSE v \in {TenantP50(t) : t \in TookPart} : \A t \in TookPart : TenantP50(t) >= v

\* C29: the fairness ratio is the slowest tenant p50 divided by the fastest
\* tenant p50 over the tenants that took part; the class is "fair" exactly
\* when the ratio is below 3.0, "moderate" exactly when it is at least 3.0
\* and below 5.0, and "unfair" otherwise
C29_FairnessClasses ==
    (FairDone /\ TookPart # {} /\ FastestP50 > 0) =>
        /\ FloatEq(verdict.value, FloatDiv(SlowestP50, FastestP50))
        /\ verdict.class = "fair" <=> SlowestP50 < FairBelow * FastestP50
        /\ verdict.class = "moderate" <=>
             (SlowestP50 >= FairBelow * FastestP50
                /\ SlowestP50 < ModerateFairBelow * FastestP50)
        /\ verdict.class = "unfair" <=> SlowestP50 >= ModerateFairBelow * FastestP50

\* one tenant's p50 is three times the p50 of every other tenant that took
\* part, and that p50 is above zero
ThreeTimesCase ==
    /\ FairDone
    /\ Cardinality(TookPart) >= 2
    /\ \E t \in TookPart :
         \A u \in TookPart \ {t} : TenantP50(u) > 0 /\ TenantP50(t) = 3 * TenantP50(u)

\* C30: when one tenant's p50 is three times the p50 of every other tenant,
\* the computed ratio is at least 3.0 and the class is "moderate" or
\* "unfair", never "fair"
C30_ThreeTimesNotFair ==
    ThreeTimesCase =>
        /\ FloatLeq(FloatDiv(FairBelow, 1), verdict.value)
        /\ verdict.class \in {"moderate", "unfair"}

\* the same for p50 values of a microsecond and more
ThreeTimesWholeMicroseconds ==
    (ThreeTimesCase /\ FastestP50 >= NsPerMicrosecond) => C30_ThreeTimesNotFair

\* whatever the p50 values, the three-times case is never classified "fair"
ThreeTimesNeverFair == ThreeTimesCase => verdict.class # "fair"

(***************************************************************************)
(* Properties of a whole run: configuration and warm-up.                   *)
(***************************************************************************)

\* C31: a run started with a concurrency of zero does not fail: it never
\* panics (and so completes and returns stats)
C31_ZeroConcurrencyNormalized == params.Concurrency = 0 => pcMain # "panic"

\* a timed run with a concurrency of zero does return stats: of no sample
ZeroConcurrencyTimedReturns ==
    (params.Concurrency = 0 /\ IsTimed /\ pcMain = "done") => stats.Total = 0

\* C39: every warm-up operation is issued before the run starts and before a
\* worker is dispatched; warm-up operations give no sample: Total and Errors
\* count the workers' operations only, whatever the warm-up count and however
\* many warm-up operations failed
C39_WarmupOutsideMeasurement ==
    /\ pcMain = "warmup" =>
         /\ results = <<>>
         /\ \A w \in Workers : pc[w] = "idle" /\ calls[w] = 0
    /\ pcMain # "warmup" => warmupIssued = warmup
    /\ warmupFailed <= warmupIssued
    /\ pcMain = "done" =>
         /\ stats = ComputeStats(RunLabel, results, totalDuration)
         /\ stats.Total = (IF IsTimed THEN SumOver(calls, Workers) ELSE params.Queries)
         /\ stats.Errors = SumOver(failed, Workers)

\* a run whose warm-up operations all failed has returned stats of its samples
C39_Witness ==
    /\ pcMain = "done"
    /\ warmup > 0
    /\ warmupFailed = warmup
    /\ stats.Total > 0
    /\ stats.Errors = 0

(***************************************************************************)
(* Properties of the duration-bounded run after the stop flag is set.      *)
(***************************************************************************)

\* C34: in a duration-bounded run a worker starts at most one operation after
\* the stop flag is set, and none when its call was in flight at that moment; a
\* worker that has read the flag as set never issues another operation
C34_OneOperationAfterStop ==
    [][\A w \in Workers :
          /\ timerFired' =>
               /\ calls'[w] <= callsAtStop'[w] + 1
               /\ (w \in inFlightAtStop' => calls'[w] = callsAtStop'[w])
          /\ pc[w] \in {"lock", "append", "done"} => calls'[w] = calls[w]]_vars

\* a worker has finished after starting one operation past the stop
C34_Witness ==
    /\ timerFired
    /\ \E w \in Workers : pc[w] = "done" /\ calls[w] = callsAtStop[w] + 1

\* C35: the mutex is held only for the append, never across a backend call;
\* once the stop flag is set every worker leaves its loop, merges and
\* finishes, and the run returns
C35_StoppedRunReturns ==
    /\ [](\A w \in mu : pc[w] = "append")
    /\ [](Cardinality(mu) <= 1)
    /\ (stopped ~> (pcMain = "done" /\ \A w \in Workers : merges[w] = 1))

\* a stopped run of several workers has returned, each having merged
C35_Witness ==
    /\ stopped
    /\ pcMain = "done"
    /\ params.Concurrency > 1
    /\ \A w \in Workers : merges[w] = 1 /\ calls[w] > 0

(***************************************************************************)
(* Properties of the per-run summary of RunMultiple.                       *)
(***************************************************************************)

\* C37: MedianStats leaves the caller's run list in its order, so row i of the
\* per-run summary of RunMultiple shows the i-th executed pass
C37_SummaryInExecutionOrder ==
    (MultiDone /\ runs > 1) => (allRuns = passes /\ summary = passes)

\* what does hold: the summary shows every pass once, in ascending p50 order
SummaryInP50Order ==
    (MultiDone /\ runs > 1) =>
        /\ BagOfSeq(summary) = BagOfSeq(passes)
        /\ \A a, b \in 1 .. Len(summary) :
              a < b => summary[a].LatencyP50 <= summary[b].LatencyP50

(***************************************************************************)
(* Properties of the scale run over tenants that failed to connect.        *)
(***************************************************************************)

\* the tenants whose Connect has failed so far
Unconnected == {t \in 1 .. Len(pools) : ~HasPool(pools, t)}

PooledP50s == {tResults[t].Stats.LatencyP50 : t \in Pooled}

SlowestPooled == CHOOSE x \in PooledP50s : \A y \in PooledP50s : y <= x

FastestPooled == CHOOSE x \in PooledP50s : \A y \in PooledP50s : x <= y

\* C38: in scale mode a tenant whose connection failed has no worker, is not
\* seeded, receives no operation and has no stats; the overall stats count the
\* connected tenants only and the fairness ratio is taken over them only; when
\* no tenant connected there is no fairness verdict and the run returns stats
\* of no sample
C38_UnconnectedTenantLeftOut ==
    /\ \A t \in Unconnected :
         /\ t \notin seeded \cup seedErr
         /\ \A wid \in WorkersOf(t) :
              pc[wid] = "idle" /\ calls[wid] = 0 /\ merges[wid] = 0
         /\ ScaleDone => tResults[t].Stats = BenchStats("", 0, 0)
    /\ ScaleDone =>
         /\ stats.Total = SumOver(calls, {wid \in DOMAIN calls : TenantOf(wid) \in Pooled})
         /\ stats.Total = SumOver(TenantTotals, Pooled)
         /\ (Pooled # {} /\ \A x \in PooledP50s : x > 0) =>
               /\ verdict.class # ""
               /\ verdict.value.num * FastestPooled = verdict.value.den * SlowestPooled
         /\ Pooled = {} => (verdict = NoVerdict /\ stats = BenchStats(ScaleLabel, 0, totalDuration))

\* one tenant failed to connect, the other was measured and ranked alone
C38_Witness ==
    /\ ScaleDone
    /\ Pooled = {2}
    /\ stats.Total > 0
    /\ stats.Total = tResults[2].Stats.Total
    /\ verdict.class = "fair"

\* no tenant connected and the run has returned
NoTenantConnected == ScaleDone /\ Pooled = {}

(***************************************************************************)
(* Properties of the noise stop signal.                                    *)
(***************************************************************************)

\* C36: the noise stop signal is given once; a noise worker starts a write
\* only from its check of the signal, and only while the signal is not given;
\* once it is given every noise worker exits and the orchestrator's wait ends
C36_NoiseStopsOnce ==
    /\ [](closes <= 1 /\ (stopNoise <=> closes = 1))
    /\ [](pcMain \in {"iso_wait", "iso_reported"} => stopNoise)
    /\ [][\A w \in NoiseIds :
            (noisePc'[w] = "exec" /\ noisePc[w] # "exec") =>
                (noisePc[w] = "select" /\ ~stopNoise)]_vars
    /\ (stopNoise ~> (pcMain = "iso_reported" /\ \A w \in NoiseIds : noisePc[w] = "done"))

\* the workers have written, the signal was given once, every worker has
\* exited and the orchestrator has reported
C36_Witness ==
    /\ pcMain = "iso_reported"
    /\ closes = 1
    /\ noiseWrites # {}
    /\ \A w \in NoiseIds : noisePc[w] = "done"

(***************************************************************************)
(* Properties of the seeding.                                              *)
(***************************************************************************)

\* C32: a SeedData call that finds at least rows rows in the table inserts
\* nothing, and after one successful SeedData call every later call with the
\* same row count leaves the table as it is
C32_SeedIdempotent ==
    /\ \A k \in 1 .. Len(seedLog) :
         /\ seedLog[k].before >= seedLog[k].rows => seedLog[k].after = seedLog[k].before
         /\ \A j \in 1 .. (k - 1) :
              (seedLog[j].ok /\ seedLog[j].rows = seedLog[k].rows) =>
                  seedLog[k].after = seedLog[k].before
    /\ (seed.pc # "idle" /\ seed.before >= seed.rows) => accounts = seed.before

\* a seed that inserted rows was followed by a seed of the same row count
\* that inserted none
C32_Witness ==
    /\ Len(seedLog) >= 2
    /\ seedLog[1].ok
    /\ seedLog[1].after > seedLog[1].before
    /\ seedLog[2].rows = seedLog[1].rows
    /\ seedLog[2].after = seedLog[2].before

(***************************************************************************)
(* Properties of the slot ranges of the count-bounded runs.                *)
(***************************************************************************)

\* the slots the dispatch hands to worker a
SlotRange(a) == {a.offset + k : k \in 0 .. (a.count - 1)}

\* C33: in the count-bounded runs (single tenant, multi-tenant, scale) the slot
\* ranges of distinct workers on one array are disjoint and lie inside the
\* array; every write goes to a slot of the writer's own range inside the
\* array, and no slot is written twice
C33_DisjointSlotRanges ==
    FanDispatched =>
        /\ \A a, b \in plan :
             (a # b /\ ArrayOf(a) = ArrayOf(b)) => SlotRange(a) \cap SlotRange(b) = {}
        /\ \A a \in plan : SlotRange(a) \subseteq 0 .. (ArraySize - 1)
        /\ \A r \in written :
             /\ r.slot \in 0 .. (ArraySize - 1)
             /\ \E a \in plan :
                  /\ a.tenant = r.tenant /\ a.worker = r.worker
                  /\ r.array = ArrayOf(a)
                  /\ r.slot \in SlotRange(a)
        /\ \A r, q \in written : (r.array = q.array /\ r.slot = q.slot) => r = q

\* the four workers of a multi-tenant run over two tenants have filled the
\* whole results array
C33_Witness ==
    /\ FanDispatched
    /\ entry.test = "multi"
    /\ Len(pools) = 2
    /\ Cardinality(plan) = 4
    /\ params.Queries > 0
    /\ {r.slot : r \in written} = 0 .. (params.Queries - 1)

====
